---- MODULE Spec2Model ----
(***************************************************************************)
(* A model of the fake-news spread simulator: the population-based model   *)
(* (pbm_simulator.py), the agent-based model (simulator.py) and the round  *)
(* orchestration of the GUI (gui.py).                                      *)
(*                                                                         *)
(* Real numbers are fixed-point integers in thousandths (SCALE): 0.4 is    *)
(* 400.  A product of two reals is Mul, which floors to the grid; sums and *)
(* differences are exact.  Population counts are reals in the code (they   *)
(* become floats after the first step) and are fixed-point here too.       *)
(***************************************************************************)
EXTENDS Integers, Sequences, FiniteSets, TLC

SCALE == 10 * 10 * 10

\* ------------------------------------------------------------------------
\* Bounds of the model
\* ------------------------------------------------------------------------
MaxPop == 3

MaxSteps == 3

\* distance, in thousandths, that bounds what separates a compartment of the
\* model from the double the code holds in the runs of this model: each Mul
\* floors to the grid, and the compartments drift from the doubles by at most
\* 5.1 over MaxSteps steps on populations up to MaxPop and by at most 4.6
\* over the rounds of a GUI run, and by at most 11 with one step, one person
\* and one CSV row more
FloatTol == 12

NumAgents == 3

\* rows of the largest CSV file the GUI loads its agents from
GuiAgents == 1

MaxRounds == 3

\* rounds of a run that is followed until every belief has decayed
MaxDecayRounds == 6

\* rounds of each run of the attribution test
AttrRounds == 2

\* largest value of the GUI's Max rounds and Intervention round spinboxes
MaxGuiRounds == 3

\* callbacks pending at once: the user presses Run while fewer are pending
MaxTimers == 2

\* changes the user makes to the parameter panel in one session
MaxEdits == 1

ExpTerms == 14

\* sharing neighbours of the agent whose update is applied on its own
MaxExposures == 4

\* rounds on the simulator of one agent more
MaxOrderRounds == 1

\* ------------------------------------------------------------------------
\* Fixed-point helpers
\* ------------------------------------------------------------------------
Min(a, b) == IF a <= b THEN a ELSE b

Max(a, b) == IF a >= b THEN a ELSE b

Abs(a) == IF a >= 0 THEN a ELSE -a

\* floor of a/b for b # 0 of either sign
FloorDiv(a, b) == IF b > 0 THEN a \div b ELSE (-a) \div (-b)

\* product of two fixed-point reals
Mul(a, b) == (a * b) \div SCALE

\* Python int(x): truncation toward zero
Trunc(x) == IF x >= 0 THEN x \div SCALE ELSE -((-x) \div SCALE)

\* Python round(x, 2) on the thousandths grid, in hundredths.  A value that
\* ends in 5 is not a tie as a double; these are the ones whose double lies
\* below the decimal and so round down.
Round2TieDown ==
    {15, 45, 75, 105, 125, 145, 155, 175, 185, 205, 215, 235, 245, 285, 295,
     305, 345, 355, 365, 415, 425, 435, 475, 485, 495, 565, 575, 585, 595,
     605, 615, 625, 695, 705, 715, 725, 735, 745, 815, 825, 835, 845, 855,
     865, 945, 955, 965, 975, 985, 995}

Round2(x) == IF x \in Round2TieDown THEN x \div 10 ELSE (x + 5) \div 10

\* exp(x) for x >= 0 by its Taylor series, term by term on the grid; the
\* next term is bound as a value before the recursive call
RECURSIVE ExpSum(_, _, _)
ExpSum(x, k, term) ==
    IF term = 0 \/ k > ExpTerms
    THEN 0
    ELSE term + (CHOOSE rest \in {ExpSum(x, k + 1, next) :
                                   next \in {(term * x) \div (k * SCALE)}} : TRUE)

\* np.exp(x)
Exp(x) ==
    CHOOSE e \in {IF v >= 0 THEN ExpSum(v, 1, SCALE)
                             ELSE (SCALE * SCALE) \div ExpSum(-v, 1, SCALE) :
                  v \in {x}} : TRUE

\* 1 / (1 + np.exp(-x))
Sigmoid(x) == (SCALE * SCALE) \div (SCALE + Exp(-x))

\* a finite set of integers as the ascending sequence
RECURSIVE SortedSeq(_)
SortedSeq(S) ==
    IF S = {} THEN <<>>
    ELSE LET m == CHOOSE x \in S : \A y \in S : x <= y
         IN  <<m>> \o SortedSeq(S \ {m})

RECURSIVE SumSeq(_)
SumSeq(q) == IF q = <<>> THEN 0 ELSE Head(q) + SumSeq(Tail(q))

\* ------------------------------------------------------------------------
\* State
\* ------------------------------------------------------------------------
VARIABLES
    \* PopulationSimulator
    total_population,   \* N, an integer
    susceptible,        \* fixed-point
    believers,          \* fixed-point
    immune,             \* fixed-point
    rates,              \* [contact_rate, belief_rate, recovery_rate], fixed-point
    history,            \* sequence of <<int(S), int(I), int(R)>>
    pbm_raised,         \* simulate_step ended in ZeroDivisionError
    pbm_last,           \* what the last PBM call was and what it saw
    \* FakeNewsSimulator
    G,                  \* the contact graph: a set of two-element sets of agents
    agent_states,       \* agent -> its traits, belief, shared, scammed, immune
    transmission_history, \* one list of <<source, target>> per standard round
    sim_attrs,          \* instance attributes read with getattr
    abm_phase,          \* "none", "constructed", "seeded"
    abm_rounds,         \* rounds run on this simulator
    abm_prev,           \* agent_states at the start of the last round
    abm_last,           \* what the last ABM call was and what it computed
    \* FakeNewsSimulatorGUI
    gui,                \* self.round, .max_rounds, .intervention, .extra_rounds,
                        \* .intervention_rounds, .abm_results, .pbm_results
    sim_topic,          \* juiciness, _sim_topic, _sim_topic_weight, _sim_topic_category
    widgets,            \* the values of the parameter panel and the buttons' states
    timers,             \* automate_rounds callbacks pending in the Tk event loop
    gui_run,            \* "none", "running", or "reset" once Reset was pressed
    abm_calls,          \* the rounds run_next_round ran on the current simulators
    edits,              \* changes of the parameter panel the user has made
    \* the three runs of tools/test_attribution.py
    py_tape,            \* words of Python's generator that the run in mode
                        \* 'random' has read and the others will read, as
                        \* ranges lo .. hi - 1
    attr_runs           \* mode -> agent_states, transmission_history

pbmVars == <<total_population, susceptible, believers, immune, rates, history,
             pbm_raised, pbm_last>>

abmVars == <<G, agent_states, transmission_history, sim_attrs, abm_phase,
             abm_rounds, abm_prev, abm_last>>

guiVars == <<gui, sim_topic, widgets, timers, gui_run, abm_calls, edits>>

attrVars == <<py_tape, attr_runs>>

vars == <<pbmVars, abmVars, guiVars, attrVars>>

\* ------------------------------------------------------------------------
\* config.py, pbm_simulator.py: constants
\* ------------------------------------------------------------------------
MAX_NEW_BELIEVER_RATIO == 300

DEFAULT_CONTACT_RATE == 400

DEFAULT_BELIEF_RATE == 300

DEFAULT_RECOVERY_RATE == 100

SimulationRates ==
    [contact_rate |-> DEFAULT_CONTACT_RATE,
     belief_rate |-> DEFAULT_BELIEF_RATE,
     recovery_rate |-> DEFAULT_RECOVERY_RATE]

\* ------------------------------------------------------------------------
\* Inputs of the PBM
\* ------------------------------------------------------------------------
Populations == 0..MaxPop

InitialBelievers == (-1)..MaxPop

\* rates a caller writes into sim.rates before the run (gui.py sliders are in
\* [0, 1]; the topology calibration yields off-grid values such as 0.404)
RatePresets ==
    { [contact_rate |-> 404, belief_rate |-> 296, recovery_rate |-> 104],
      [contact_rate |-> 410, belief_rate |-> 310, recovery_rate |-> 500],
      [contact_rate |-> 950, belief_rate |-> 1000, recovery_rate |-> 0],
      [contact_rate |-> 640, belief_rate |-> 300, recovery_rate |-> 1000],
      [contact_rate |-> 400, belief_rate |-> 700, recovery_rate |-> 100] }

TopicWeights == {50, 1000}

JuiceFactors == {0, 500}

NoCall == [op |-> "none"]

\* ------------------------------------------------------------------------
\* PopulationSimulator.__init__
\* ------------------------------------------------------------------------
PBMConstruct(initial_population, initial_believers) ==
    LET ib == Max(0, initial_believers)
    IN  [total_population |-> initial_population,
         rates |-> SimulationRates,
         susceptible |-> (initial_population - ib) * SCALE,
         believers |-> ib * SCALE,
         immune |-> 0,
         history |-> << <<initial_population - ib, ib, 0>> >>]

\* ------------------------------------------------------------------------
\* PopulationSimulator.adjust_rates
\* ------------------------------------------------------------------------
ContactIsDefault(r) == Round2(r.contact_rate) = 40

BeliefIsDefault(r) == Round2(r.belief_rate) = 30

RecoveryIsDefault(r) == Round2(r.recovery_rate) = 10

AdjustedContact(r, topic_weight) ==
    IF ContactIsDefault(r)
    THEN LET topic_effect == Max(100, Min(800, topic_weight))
         IN  Min(800, Mul(400, SCALE + Mul(300, topic_effect)))
    ELSE r.contact_rate

AdjustedBelief(r, juice_factor) ==
    IF BeliefIsDefault(r)
    THEN LET juice_effect == Max(100, Min(700, juice_factor))
         IN  Min(700, Mul(300, SCALE + Mul(400, juice_effect)))
    ELSE r.belief_rate

AdjustedRecovery(r, intervention) ==
    IF intervention
    THEN Mul(100, 1500)
    ELSE IF RecoveryIsDefault(r) THEN Mul(100, 1000) ELSE r.recovery_rate

adjust_rates(r, topic_weight, juice_factor, intervention) ==
    [contact_rate |-> AdjustedContact(r, topic_weight),
     belief_rate |-> AdjustedBelief(r, juice_factor),
     recovery_rate |-> AdjustedRecovery(r, intervention)]

\* ------------------------------------------------------------------------
\* PopulationSimulator.simulate_step
\* ------------------------------------------------------------------------
ExposureRate(r, N, S, I) ==
    FloorDiv(Mul(Mul(Mul(r.contact_rate, r.belief_rate), S), I), N)

NewBelieversUncapped(r, N, S, I) == ExposureRate(r, N, S, I)

NewBelievers(r, N, S, I) ==
    Min(ExposureRate(r, N, S, I), Mul(S, MAX_NEW_BELIEVER_RATIO))

Recoveries(r, I) == Mul(r.recovery_rate, I)

StepSusceptible(S, nb) == Max(0, S - nb)

StepBelievers(I, nb, rec) == Max(0, I + nb - rec)

StepImmune(R, rec) == R + rec

\* The compartments are doubles, and a value of the grid stands for every
\* double within FloatTol thousandths of it: the sums and products of a step
\* are rounded (2 + 0.3 - 0.3 is 1.9999999999999998), so that int() of a
\* compartment a step has moved, lying that close to a whole number, falls on
\* either side of it.  A compartment the step adds 0.0 to keeps its double,
\* and int() gives what it gave before: last, the entry appended for it by
\* the step before or by the constructor.
IntValues(last, x, moved) ==
    IF moved THEN Trunc(x - FloatTol)..Trunc(x + FloatTol) ELSE {last}

\* the triples simulate_step can append to history and return (lines 92-96);
\* new_believers is 0.0 when a factor of exposure_rate is 0, recoveries when
\* a factor of it is 0
StepEntries(r, last, S, I, S1, I1, R1) ==
    LET gains == r.contact_rate # 0 /\ r.belief_rate # 0 /\ S # 0 /\ I # 0
        recovers == r.recovery_rate # 0 /\ I # 0
    IN  IntValues(last[1], S1, gains)
           \X IntValues(last[2], I1, gains \/ recovers)
           \X IntValues(last[3], R1, recovers)

\* no GUI exists
NoGUI ==
    /\ gui = <<>>
    /\ sim_topic = <<>>
    /\ widgets = <<>>
    /\ timers = 0
    /\ gui_run = "none"
    /\ abm_calls = <<>>
    /\ edits = 0

\* no attribution test is running
NoAttr ==
    /\ py_tape = <<>>
    /\ attr_runs = <<>>

\* no agent-based simulator exists
NoABM ==
    /\ G = {}
    /\ agent_states = <<>>
    /\ transmission_history = <<>>
    /\ sim_attrs = <<>>
    /\ abm_phase = "none"
    /\ abm_rounds = 0
    /\ abm_prev = <<>>
    /\ abm_last = NoCall

\* ------------------------------------------------------------------------
\* The PBM on its own: a caller that constructs the simulator, may write the
\* rates, and then calls adjust_rates and simulate_step in any order.
\* ------------------------------------------------------------------------
InitPBM ==
    \E n \in Populations, ib \in InitialBelievers :
        LET p == PBMConstruct(n, ib)
        IN  /\ total_population = p.total_population
            /\ susceptible = p.susceptible
            /\ believers = p.believers
            /\ immune = p.immune
            /\ rates = p.rates
            /\ history = p.history
            /\ pbm_raised = FALSE
            /\ pbm_last = NoCall
            /\ NoABM
            /\ NoGUI
            /\ NoAttr

\* the caller writes sim.rates.<field> directly (gui.py 1556-1562), before any
\* other call
PresetRates ==
    /\ pbm_last.op = "none"
    /\ \E r \in RatePresets :
          /\ rates' = r
          /\ pbm_last' = [op |-> "preset"]
    /\ UNCHANGED <<total_population, susceptible, believers, immune, history,
                   pbm_raised>>
    /\ UNCHANGED <<abmVars, guiVars, attrVars>>

AdjustRates ==
    /\ ~pbm_raised
    /\ \E tw \in TopicWeights, jf \in JuiceFactors, iv \in BOOLEAN :
          /\ rates' = adjust_rates(rates, tw, jf, iv)
          /\ pbm_last' = [op |-> "adjust", before |-> rates, intervention |-> iv]
    /\ UNCHANGED <<total_population, susceptible, believers, immune, history,
                   pbm_raised>>
    /\ UNCHANGED <<abmVars, guiVars, attrVars>>

SimulateStep ==
    /\ ~pbm_raised
    /\ Len(history) <= MaxSteps
    /\ IF total_population = 0
       THEN \* the division by N raises ZeroDivisionError before any assignment
            /\ pbm_raised' = TRUE
            /\ pbm_last' = [op |-> "step_raised"]
            /\ UNCHANGED <<total_population, susceptible, believers, immune,
                           rates, history>>
       ELSE LET N == total_population
                S == susceptible
                I == believers
                R == immune
                nb == NewBelievers(rates, N, S, I)
                rec == Recoveries(rates, I)
            IN  /\ susceptible' = StepSusceptible(S, nb)
                /\ believers' = StepBelievers(I, nb, rec)
                /\ immune' = StepImmune(R, rec)
                /\ \E entry \in StepEntries(rates, history[Len(history)], S, I,
                                            susceptible', believers', immune') :
                      history' = Append(history, entry)
                /\ pbm_last' = [op |-> "step", S |-> S, I |-> I, R |-> R,
                                exposure_rate |-> ExposureRate(rates, N, S, I),
                                new_believers |-> nb, recoveries |-> rec]
                /\ UNCHANGED <<total_population, rates, pbm_raised>>
    /\ UNCHANGED <<abmVars, guiVars, attrVars>>

NextPBM == PresetRates \/ AdjustRates \/ SimulateStep

SpecPBM == InitPBM /\ [][NextPBM]_vars

\* ------------------------------------------------------------------------
\* config.py: simulation constants
\* ------------------------------------------------------------------------
BASE_GAMMA == 300

BETA1 == 400

BETA2 == 300

BETA3 == 200

BETA4 == 300

CATEGORY_TRAIT ==
    [c \in {"Cybersecurity", "Campus Rumors", "Financial Scams", "Health Scare"} |->
        CASE c = "Cybersecurity" -> "trust_level"
          [] c = "Campus Rumors" -> "confirmation_bias"
          [] c = "Financial Scams" -> "critical_thinking"
          [] c = "Health Scare" -> "emotional_susceptibility"]

\* simulator.py: the defaults of the getattr lookups
DEFAULT_INERTIA == 600

DEFAULT_MAX_DELTA == 200

SHARE_BELIEF_WEIGHT == 3000

SHARE_EMOTIONAL_WEIGHT == 1200

SHARE_CONFIRMATION_WEIGHT == 800

SHARE_JUICE_WEIGHT == 800

SHARE_CRITICAL_PENALTY == 2500

SHARE_OFFSET == -1000

SHARE_INTERVENTION_FACTOR == 450

\* ------------------------------------------------------------------------
\* Inputs of the ABM
\* ------------------------------------------------------------------------
Agents == 0..(NumAgents - 1)

Modes == {"weighted", "random", "first"}

AllPairs == {e \in SUBSET Agents : Cardinality(e) = 2}

\* graphs nx.erdos_renyi_graph can return
PathGraph == {{i, i + 1} : i \in 0..(NumAgents - 2)}

Graphs == {PathGraph, AllPairs, {{0, 1}}}

\* the scam variant is run on one agent more, so that two agents are left
\* unscammed by the seeding
ScamAgents == 0..NumAgents

ScamGraphs ==
    { {{i, i + 1} : i \in 0..(NumAgents - 1)},
      {e \in SUBSET ScamAgents : Cardinality(e) = 2},
      {{0, i} : i \in 1..NumAgents},
      {{1, i} : i \in ScamAgents \ {1}},
      {{0, 1}},
      {} }

Gullible ==
    [confirmation_bias |-> 900, emotional_susceptibility |-> 900,
     trust_level |-> 900, critical_thinking |-> 100,
     fact_check_signal |-> 100, risk_perception |-> 200]

Marginal ==
    [confirmation_bias |-> 600, emotional_susceptibility |-> 500,
     trust_level |-> 500, critical_thinking |-> 400,
     fact_check_signal |-> 300, risk_perception |-> 500]

Skeptic ==
    [confirmation_bias |-> 200, emotional_susceptibility |-> 200,
     trust_level |-> 200, critical_thinking |-> 900,
     fact_check_signal |-> 800, risk_perception |-> 900]

Trusting ==
    [confirmation_bias |-> 500, emotional_susceptibility |-> 500,
     trust_level |-> 800, critical_thinking |-> 300,
     fact_check_signal |-> 500, risk_perception |-> 500]

\* trait tables (agent_data): one row per agent
MixedTable ==
    [i \in Agents |-> CASE i % 3 = 0 -> Gullible
                         [] i % 3 = 1 -> Marginal
                         [] OTHER -> Skeptic]

TraitTables == {MixedTable}

ScamTraitTables ==
    { [i \in ScamAgents |-> CASE i % 3 = 0 -> Gullible
                               [] i % 3 = 1 -> Marginal
                               [] OTHER -> Skeptic],
      [i \in ScamAgents |-> IF i % 2 = 0 THEN Trusting ELSE Gullible],
      [i \in ScamAgents |-> IF i = 0 THEN Skeptic ELSE Trusting],
      [i \in ScamAgents |-> IF i < 2 THEN Marginal ELSE Trusting] }

\* values of (belief_inertia, max_belief_delta): the defaults, and a simulator
\* whose attributes were set to commit the new belief at once
SmoothingSettings ==
    { [belief_inertia |-> DEFAULT_INERTIA, max_belief_delta |-> DEFAULT_MAX_DELTA],
      [belief_inertia |-> 0, max_belief_delta |-> 1000] }

\* arguments of simulate_fake_news_round
RoundArgs ==
    { [juice_factor |-> 500, topic_weight |-> 1000, topic_category |-> "None",
       intervention |-> FALSE, extra_rounds |-> FALSE],
      [juice_factor |-> 500, topic_weight |-> 1000, topic_category |-> "None",
       intervention |-> TRUE, extra_rounds |-> FALSE],
      [juice_factor |-> 500, topic_weight |-> 1000, topic_category |-> "None",
       intervention |-> FALSE, extra_rounds |-> TRUE],
      [juice_factor |-> 950, topic_weight |-> 1500, topic_category |-> "Health Scare",
       intervention |-> FALSE, extra_rounds |-> FALSE] }

\* values random.random() and numpy's random_sample() return: one below every
\* positive p_share and one above every p_share (p_share is at most
\* sigmoid(4.8) = 0.992), so that every agent that can share both shares and
\* does not
DrawVals == {0, 999}

\* ------------------------------------------------------------------------
\* FakeNewsSimulator.__init__, _initialize_agents
\* ------------------------------------------------------------------------
initialize_agents(agent_df) ==
    [i \in DOMAIN agent_df |->
        [belief |-> 0,
         shared |-> FALSE,
         confirmation_bias |-> agent_df[i].confirmation_bias,
         emotional_susceptibility |-> agent_df[i].emotional_susceptibility,
         trust_level |-> agent_df[i].trust_level,
         critical_thinking |-> agent_df[i].critical_thinking,
         fact_check_signal |-> agent_df[i].fact_check_signal,
         risk_perception |-> agent_df[i].risk_perception,
         scammed |-> FALSE,
         immune |-> FALSE]]

\* list(self.G.nodes())
nodes(st) == SortedSeq(DOMAIN st)

\* list(self.G.neighbors(i)): gnp_random_graph adds the edges in
\* itertools.combinations order, so the adjacency of i is ascending
neighbors(g, i) == SortedSeq({j \in UNION g : j /= i /\ {i, j} \in g})

\* ------------------------------------------------------------------------
\* FakeNewsSimulator.seed_initial_state
\* ------------------------------------------------------------------------
\* the samples random.sample(keys, min(2, len(keys))) can return
SeedSamples(keys) ==
    {c \in SUBSET keys : Cardinality(c) = Min(2, Cardinality(keys))}

seed_initial_state(st, sample, is_scam) ==
    [i \in DOMAIN st |->
        IF i \in sample
        THEN IF is_scam
             THEN [st[i] EXCEPT !.scammed = TRUE]
             ELSE [st[i] EXCEPT !.belief = SCALE, !.shared = TRUE]
        ELSE st[i]]

\* ------------------------------------------------------------------------
\* FakeNewsSimulator._get_dynamic_parameters
\* ------------------------------------------------------------------------
get_dynamic_parameters(juice_factor, intervention, extra_rounds) ==
    LET tier == IF juice_factor >= 950
                THEN [theta_b |-> 350, theta_s |-> 550, lambda_decay |-> 50,
                      exposure_alpha |-> 1000]
                ELSE IF juice_factor >= 800
                THEN [theta_b |-> 420, theta_s |-> 620, lambda_decay |-> 80,
                      exposure_alpha |-> 800]
                ELSE [theta_b |-> 480, theta_s |-> 650, lambda_decay |-> 100,
                      exposure_alpha |-> 700]
        ts == IF intervention THEN Mul(tier.theta_s, 1300) ELSE tier.theta_s
        l1 == IF intervention THEN Mul(tier.lambda_decay, 1500)
                              ELSE tier.lambda_decay
        l2 == IF extra_rounds THEN Mul(l1, 1200) ELSE l1
    IN  [theta_b |-> tier.theta_b, theta_s |-> ts, lambda_decay |-> l2,
         exposure_alpha |-> tier.exposure_alpha]

\* ------------------------------------------------------------------------
\* FakeNewsSimulator._calculate_trait_weights
\* ------------------------------------------------------------------------
BaseWeights ==
    [confirmation_bias |-> BETA1, emotional_susceptibility |-> BETA2,
     trust_level |-> BETA3, critical_thinking |-> BETA4]

\* weights that are scaled down for a topic without a primary trait as well
TraitWeightsAlwaysScaled(topic_category) ==
    [k \in DOMAIN BaseWeights |->
        Mul(BaseWeights[k],
            IF /\ topic_category \in DOMAIN CATEGORY_TRAIT
               /\ k = CATEGORY_TRAIT[topic_category]
            THEN 1400 ELSE 900)]

calculate_trait_weights(topic_category) ==
    IF topic_category \in DOMAIN CATEGORY_TRAIT
    THEN [k \in DOMAIN BaseWeights |->
            Mul(BaseWeights[k],
                IF k = CATEGORY_TRAIT[topic_category] THEN 1400 ELSE 900)]
    ELSE BaseWeights

\* ------------------------------------------------------------------------
\* FakeNewsSimulator._calculate_belief_probability
\* ------------------------------------------------------------------------
calculate_belief_probability(agent, weights, topic_weight, juice_factor) ==
    LET trait_influence ==
            Mul(weights.confirmation_bias, agent.confirmation_bias)
            + Mul(Mul(weights.emotional_susceptibility,
                      agent.emotional_susceptibility),
                  topic_weight + Mul(200, juice_factor))
            + Mul(weights.trust_level, agent.trust_level)
        resistance == Mul(weights.critical_thinking, agent.critical_thinking)
        base_prob == 200 + Mul(150, topic_weight) + Mul(100, juice_factor)
    IN  Min(950, Max(0, base_prob + trait_influence - resistance))

\* a count of the neighbours that hold some belief, sharing or not
ExposuresToBelievers(g, st, i) ==
    Cardinality({j \in DOMAIN st : j # i /\ {i, j} \in g /\ st[j].belief > 0})

\* ------------------------------------------------------------------------
\* FakeNewsSimulator.simulate_fake_news_round
\* ------------------------------------------------------------------------
\* sum(shared.get(j, False) for j in neighbors)
Exposures(g, st, i) ==
    Cardinality({j \in DOMAIN st : {i, j} \in g /\ st[j].shared})

\* the decay branch taken with no exposure or in an extra round
NoExposureDecay(old, exposures, lambda_decay) ==
    LET decay_modifier == Max(600, SCALE - (exposures * SCALE) \div 8)
    IN  Mul(old, Exp(-Mul(lambda_decay, decay_modifier)))

\* P_believe of an exposed agent
PBelieve(agent, exposures, a, dp) ==
    LET weights == calculate_trait_weights(a.topic_category)
        P_star == calculate_belief_probability(agent, weights, a.topic_weight,
                                               a.juice_factor)
        social_factor == Sigmoid(dp.exposure_alpha * exposures)
        exposure_factor ==
            Min(800, Mul(social_factor, SCALE + Mul(350, a.juice_factor)))
        gamma == Mul(BASE_GAMMA, IF a.intervention THEN 2500 ELSE 1000)
        fact_check_impact ==
            Mul(Mul(gamma, agent.fact_check_signal),
                IF a.intervention THEN 1500 ELSE 800)
    IN  Max(0, Mul(exposure_factor, P_star) - fact_check_impact)

\* an update that gives many sharing neighbours no extra weight
ExposedUpdateNoBonus(agent, exposures, a, dp) ==
    LET P_believe == PBelieve(agent, exposures, a, dp)
    IN  IF P_believe > dp.theta_b
        THEN Min(900, P_believe)
        ELSE LET decay_modifier == Max(500, SCALE - (exposures * SCALE) \div 10)
             IN  Mul(agent.belief, Exp(-Mul(dp.lambda_decay, decay_modifier)))

\* the branch of an exposed agent in a round that is not an extra round
ExposedUpdate(agent, exposures, a, dp) ==
    LET P_believe == PBelieve(agent, exposures, a, dp)
    IN  IF P_believe > dp.theta_b
        THEN IF exposures >= 3 THEN Min(SCALE, P_believe + 100)
                               ELSE Min(900, P_believe)
        ELSE LET decay_modifier == Max(500, SCALE - (exposures * SCALE) \div 10)
             IN  Mul(agent.belief, Exp(-Mul(dp.lambda_decay, decay_modifier)))

\* a first loop that takes the decay branch only when there is no exposure
RawNewBeliefIgnoringExtra(g, st, i, a) ==
    LET dp == get_dynamic_parameters(a.juice_factor, a.intervention,
                                     a.extra_rounds)
        exposures == Exposures(g, st, i)
    IN  IF exposures = 0
        THEN NoExposureDecay(st[i].belief, exposures, dp.lambda_decay)
        ELSE ExposedUpdate(st[i], exposures, a, dp)

\* new_beliefs[i] as the first loop leaves it (lines 85-122)
RawNewBelief(g, st, i, a) ==
    LET dp == get_dynamic_parameters(a.juice_factor, a.intervention,
                                     a.extra_rounds)
        exposures == Exposures(g, st, i)
    IN  IF a.extra_rounds \/ exposures = 0
        THEN NoExposureDecay(st[i].belief, exposures, dp.lambda_decay)
        ELSE ExposedUpdate(st[i], exposures, a, dp)

RawNewBeliefs(g, st, a) == [i \in DOMAIN st |-> RawNewBelief(g, st, i, a)]

ThetaB(a) ==
    get_dynamic_parameters(a.juice_factor, a.intervention, a.extra_rounds).theta_b

\* prev_belief_flags[i] (line 129)
PrevBeliefFlag(st, i, a) == st[i].belief > ThetaB(a)

\* a marking that does not ask whether the agent was a believer
BecomesImmuneOnLowBelief(st, raw, i, a) == raw[i] <= ThetaB(a)

\* the agent is marked immune by this round (lines 138-141); raw is new_beliefs
\* as the first loop left it
BecomesImmune(st, raw, i, a) == PrevBeliefFlag(st, i, a) /\ raw[i] <= ThetaB(a)

\* a marking loop that keeps no immunity of earlier rounds
ImmuneFlagThisRoundOnly(st, raw, i, a) == BecomesImmune(st, raw, i, a)

\* the immune flag after the marking loop
ImmuneFlag(st, raw, i, a) == st[i].immune \/ BecomesImmune(st, raw, i, a)

\* new_beliefs[i] after the marking loop
NewBelief(st, raw, i, a) == IF BecomesImmune(st, raw, i, a) THEN 0 ELSE raw[i]

\* a smoothed update that adds the step to the target and leaves out the
\* final clamp
SmoothedFromTargetUnclamped(old_b, target_b, attrs) ==
    LET d == target_b - old_b
        delta == IF d > attrs.max_belief_delta THEN attrs.max_belief_delta
                 ELSE IF d < -attrs.max_belief_delta THEN -attrs.max_belief_delta
                 ELSE d
    IN  target_b + Mul(SCALE - attrs.belief_inertia, delta)

\* a smoothed update that does not cap the step
SmoothedUncapped(old_b, target_b, attrs) ==
    LET delta == target_b - old_b
        smoothed == old_b + Mul(SCALE - attrs.belief_inertia, delta)
    IN  Max(0, Min(SCALE, smoothed))

\* the smoothed update of a non-immune agent (lines 150-161)
Smoothed(old_b, target_b, attrs) ==
    LET d == target_b - old_b
        delta == IF d > attrs.max_belief_delta THEN attrs.max_belief_delta
                 ELSE IF d < -attrs.max_belief_delta THEN -attrs.max_belief_delta
                 ELSE d
        smoothed == old_b + Mul(SCALE - attrs.belief_inertia, delta)
    IN  Max(0, Min(SCALE, smoothed))

\* agent_states[i]['belief'] after the commit loop (lines 143-161)
CommittedBelief(st, raw, i, a, attrs) ==
    IF ImmuneFlag(st, raw, i, a)
    THEN 0
    ELSE Smoothed(st[i].belief, NewBelief(st, raw, i, a), attrs)

\* the score of the sharing decision (lines 181-186)
ShareScore(agent, bval, a) ==
    Mul(SHARE_BELIEF_WEIGHT, bval)
    + Mul(SHARE_EMOTIONAL_WEIGHT, agent.emotional_susceptibility)
    + Mul(SHARE_CONFIRMATION_WEIGHT, agent.confirmation_bias)
    + Mul(SHARE_JUICE_WEIGHT, a.juice_factor)
    - Mul(SHARE_CRITICAL_PENALTY, agent.critical_thinking)
    + SHARE_OFFSET

UngatedPShare(agent, bval, a) ==
    LET p == Sigmoid(ShareScore(agent, bval, a)) * SCALE
    IN  IF a.intervention THEN Mul(p, SHARE_INTERVENTION_FACTOR) ELSE p

\* p_share, in millionths (lines 187-192)
PShare(agent, bval, a) ==
    LET p == Sigmoid(ShareScore(agent, bval, a)) * Max(0, bval)
    IN  IF a.intervention THEN Mul(p, SHARE_INTERVENTION_FACTOR) ELSE p

\* random.random() < p_share (line 194)
SharedDecision(p_share, draw) == draw * SCALE < p_share

\* became_believer (line 200)
BecameBeliever(st, raw, i, a) ==
    ~PrevBeliefFlag(st, i, a) /\ NewBelief(st, raw, i, a) > ThetaB(a)

\* candidates taken from all neighbours, sharing or not
SourceCandidatesAnyNeighbour(g, st, i) == neighbors(g, i)

\* source_candidates (line 203)
SourceCandidates(g, st, i) == SelectSeq(neighbors(g, i), LAMBDA j : st[j].shared)

\* the agents a record is appended for, in node order
AttributedTargets(g, st, raw, a) ==
    SelectSeq(nodes(st), LAMBDA i : /\ BecameBeliever(st, raw, i, a)
                                /\ SourceCandidates(g, st, i) # <<>>)

\* random.choice(seq) is seq[_randbelow(len(seq))]; r is the value _randbelow
\* returns, one of 0 .. len(seq) - 1
RandomChoice(seq, r) == seq[r + 1]

\* np.random.choice(seq, p=probs) with the draw u: the first index whose
\* cumulative probability exceeds u
RECURSIVE CdfIndex(_, _, _, _, _)
CdfIndex(ws, total, u, k, cum) ==
    IF k >= Len(ws) \/ (cum + ws[k]) * SCALE > u * total
    THEN k
    ELSE CdfIndex(ws, total, u, k + 1, cum + ws[k])

WeightedChoice(seq, st, u) ==
    LET ws == [k \in 1..Len(seq) |-> Max(10, st[seq[k]].belief)]
    IN  seq[CdfIndex(ws, SumSeq(ws), u, 1, 0)]

\* the source recorded for target i; attrDraw is the draw the choice takes
AttributedSource(g, st, i, mode, attrDraw) ==
    LET cands == SourceCandidates(g, st, i)
    IN  IF mode = "random" THEN RandomChoice(cands, attrDraw)
        ELSE IF mode = "first" THEN cands[1]
        ELSE WeightedChoice(cands, st, attrDraw)

\* what the round computes before any random draw; raw and belief are bound
\* as values, each computed once
RoundOutcome(g, st, a, attrs) ==
    CHOOSE out \in
        { [raw |-> raw,
           immune |-> [i \in DOMAIN st |-> ImmuneFlag(st, raw, i, a)],
           belief |-> belief,
           p_share |-> [i \in DOMAIN st |-> PShare(st[i], belief[i], a)],
           targets |-> AttributedTargets(g, st, raw, a)] :
          <<raw, belief>> \in
              { <<r, [i \in DOMAIN st |-> CommittedBelief(st, r, i, a, attrs)]>> :
                r \in {RawNewBeliefs(g, st, a)} } } : TRUE

\* the draws the attribution of a round can take, one per record: in mode
\* 'random' what _randbelow returns for the record's candidates, in mode
\* 'weighted' a value of numpy's generator
AttrDraws(g, st, out, mode) ==
    IF mode = "first" THEN {<<>>}
    ELSE IF mode = "weighted" THEN [1..Len(out.targets) -> DrawVals]
    ELSE {d \in [1..Len(out.targets) -> 0..(Cardinality(DOMAIN st) - 1)] :
             \A k \in 1..Len(out.targets) :
                 d[k] < Len(SourceCandidates(g, st, out.targets[k]))}

\* an attribution that in mode 'first' credits the first neighbour only, and
\* appends no record when that neighbour was not sharing
TransmissionsByFirstNeighbour(g, st, out, mode, attrDraws) ==
    LET kept == IF mode = "first"
                THEN SelectSeq(out.targets,
                               LAMBDA i : st[neighbors(g, i)[1]].shared)
                ELSE out.targets
    IN  [k \in 1..Len(kept) |->
            <<AttributedSource(g, st, kept[k], mode,
                               IF mode = "first" THEN 0 ELSE attrDraws[k]),
              kept[k]>>]

\* transmissions (lines 197-225)
Transmissions(g, st, out, mode, attrDraws) ==
    [k \in 1..Len(out.targets) |->
        <<AttributedSource(g, st, out.targets[k], mode,
                           IF mode = "first" THEN 0 ELSE attrDraws[k]),
          out.targets[k]>>]

\* a commit that also resets the scam flag
CommitRoundClearingScam(st, out, shareDraws) ==
    [i \in DOMAIN st |->
        [st[i] EXCEPT
            !.immune = out.immune[i],
            !.belief = out.belief[i],
            !.shared = SharedDecision(out.p_share[i], shareDraws[i + 1]),
            !.scammed = FALSE]]

\* agent_states after the round (lines 138-161, 227-229); shareDraws[i + 1] is
\* agent i's draw
CommitRound(st, out, shareDraws) ==
    [i \in DOMAIN st |->
        [st[i] EXCEPT
            !.immune = out.immune[i],
            !.belief = out.belief[i],
            !.shared = SharedDecision(out.p_share[i], shareDraws[i + 1])]]

simulate_fake_news_round(g, st, a, attrs, shareDraws) ==
    CommitRound(st, RoundOutcome(g, st, a, attrs), shareDraws)

\* the list the round returns (line 237): the committed shared flags, in node
\* order
RoundResult(st) == [k \in 1..Cardinality(DOMAIN st) |-> st[k - 1].shared]

\* ------------------------------------------------------------------------
\* FakeNewsSimulator.simulate_scam_round
\* ------------------------------------------------------------------------
ScamExposures(g, scammed, i) ==
    Cardinality({j \in DOMAIN scammed : {i, j} \in g /\ scammed[j]})

PScam(agent) ==
    Max(0, Min(SCALE, Mul(500, agent.trust_level)
                      + Mul(400, SCALE - agent.risk_perception)
                      - Mul(300, agent.critical_thinking)))

\* a rule that does not look at the neighbours
NewScammedUnexposed(g, st, scammed, i) == scammed[i] \/ PScam(st[i]) > 500

\* a rule that recomputes the flag of an agent already scammed
NewScammedNoKeep(g, st, scammed, i) ==
    IF ScamExposures(g, scammed, i) = 0 THEN FALSE ELSE PScam(st[i]) > 500

\* a rule under which two scammed neighbours count double
NewScammedByExposureCount(g, st, scammed, i) ==
    IF scammed[i] THEN TRUE
    ELSE PScam(st[i]) * ScamExposures(g, scammed, i) > 500

NewScammed(g, st, scammed, i) ==
    IF scammed[i] THEN TRUE
    ELSE IF ScamExposures(g, scammed, i) = 0 THEN FALSE
    ELSE PScam(st[i]) > 500

simulate_scam_round(g, st) ==
    LET scammed == [i \in DOMAIN st |-> st[i].scammed]
    IN  [i \in DOMAIN st |-> [st[i] EXCEPT !.scammed = NewScammed(g, st, scammed, i)]]

\* ------------------------------------------------------------------------
\* The loops of the two rounds, one agent at a time. order is the sequence in
\* which the loop visits the agents; the code visits them in node order.
\* ------------------------------------------------------------------------
Orders(keys) ==
    {o \in [1..Cardinality(keys) -> keys] : \A x \in keys : \E k \in DOMAIN o : o[k] = x}

\* a read that takes the flag already decided in this round, when there is one
ScammedSeenLive(scammed, new_scammed, j) ==
    IF j \in DOMAIN new_scammed THEN new_scammed[j] ELSE scammed[j]

\* the scammed flag of agent j as the loop reads it (lines 304, 312): from the
\* dictionary copied before the loop, not from new_scammed
ScammedSeen(scammed, new_scammed, j) == scammed[j]

\* new_scammed after the first k visits of the loop (lines 306-320)
RECURSIVE ScamLoop(_, _, _, _, _)
ScamLoop(g, st, scammed, order, k) ==
    IF k = 0
    THEN [x \in {} |-> FALSE]
    ELSE LET done == ScamLoop(g, st, scammed, order, k - 1)
             i == order[k]
             seen == [j \in DOMAIN st |-> ScammedSeen(scammed, done, j)]
             v == IF scammed[i] THEN TRUE
                  ELSE IF ScamExposures(g, seen, i) = 0 THEN FALSE
                  ELSE PScam(st[i]) > 500
         IN  [x \in DOMAIN done \cup {i} |-> IF x = i THEN v ELSE done[x]]

\* agent_states after a scam round that visits the agents in the given order
\* (lines 303-323)
ScamRoundInOrder(g, st, order) ==
    LET scammed == [i \in DOMAIN st |-> st[i].scammed]
        new_scammed == ScamLoop(g, st, scammed, order, Len(order))
    IN  [i \in DOMAIN st |-> [st[i] EXCEPT !.scammed = new_scammed[i]]]

\* new_beliefs after the first k visits of the belief loop (lines 85-122): the
\* loop writes new_beliefs only and reads the shared and belief values of st,
\* the state at the start of the round
RECURSIVE BeliefLoop(_, _, _, _, _)
BeliefLoop(g, st, a, order, k) ==
    IF k = 0
    THEN [x \in {} |-> 0]
    ELSE LET done == BeliefLoop(g, st, a, order, k - 1)
             i == order[k]
             v == RawNewBelief(g, st, i, a)
         IN  [x \in DOMAIN done \cup {i} |-> IF x = i THEN v ELSE done[x]]

\* ------------------------------------------------------------------------
\* The ABM on its own: a caller that constructs the simulator, seeds it once
\* and then runs standard and scam rounds with any arguments.
\* ------------------------------------------------------------------------
\* no population simulator exists
NoPBM ==
    /\ total_population = 0
    /\ susceptible = 0
    /\ believers = 0
    /\ immune = 0
    /\ rates = SimulationRates
    /\ history = <<>>
    /\ pbm_raised = FALSE
    /\ pbm_last = NoCall

\* the names simulator.py imports from config (lines 10-11)
SimulatorImports ==
    {"THETA_B", "THETA_S", "A", "BASE_GAMMA", "LAMBDA_DECAY",
     "BETA1", "BETA2", "BETA3", "BETA4", "CATEGORY_TRAIT"}

\* the names of them a config.py defines: config.py as shipped, which defines
\* all of them but A, and a config.py that defines A as well
Configs == {SimulatorImports \ {"A"}, SimulatorImports}

\* from config import (...) raises ImportError unless config defines every
\* name
ImportSucceeds(config) == SimulatorImports \subseteq config

\* the import of simulator raised ImportError: there is no class
\* FakeNewsSimulator, so no simulator, no GUI (gui.py:15 imports it) and no
\* run of tools/test_attribution.py, and nothing can be called
ImportFailed ==
    /\ G = {}
    /\ agent_states = <<>>
    /\ transmission_history = <<>>
    /\ sim_attrs = <<>>
    /\ abm_phase = "import_error"
    /\ abm_rounds = 0
    /\ abm_prev = <<>>
    /\ abm_last = NoCall
    /\ NoPBM
    /\ NoGUI
    /\ NoAttr

\* import simulator, then FakeNewsSimulator.__init__.  simulator.py:10
\* imports the name A from config, which config.py does not define and no line
\* of simulator.py uses: as shipped the import raises ImportError and no
\* simulator is ever constructed; with a config.py that defines A the
\* constructor runs.
InitABM ==
    \E config \in Configs :
        IF ImportSucceeds(config)
        THEN /\ \E g \in Graphs, t \in TraitTables, sm \in SmoothingSettings, m \in Modes :
                   /\ G = g
                   /\ agent_states = initialize_agents(t)
                   /\ sim_attrs = [attribution_mode |-> m,
                                   belief_inertia |-> sm.belief_inertia,
                                   max_belief_delta |-> sm.max_belief_delta]
             /\ transmission_history = <<>>
             /\ abm_phase = "constructed"
             /\ abm_rounds = 0
             /\ abm_prev = agent_states
             /\ abm_last = NoCall
             /\ NoPBM
             /\ NoGUI
             /\ NoAttr
        ELSE ImportFailed

\* seed_initial_state(is_scam=False)
SeedBelievers ==
    /\ abm_phase = "constructed"
    /\ \E sample \in SeedSamples(DOMAIN agent_states) :
          agent_states' = seed_initial_state(agent_states, sample, FALSE)
    /\ abm_last' = [op |-> "seed", is_scam |-> FALSE]
    /\ abm_phase' = "seeded"
    /\ abm_prev' = agent_states
    /\ UNCHANGED <<G, transmission_history, sim_attrs, abm_rounds>>
    /\ UNCHANGED <<pbmVars, guiVars, attrVars>>

\* simulate_fake_news_round(), called at most max_rounds times with arguments
\* taken from args
fake_news_round(max_rounds, args) ==
    /\ abm_phase = "seeded"
    /\ abm_rounds < max_rounds
    /\ \E a \in args :
          LET mode == sim_attrs.attribution_mode
          IN  \E out \in {RoundOutcome(G, agent_states, a, sim_attrs)} :
              \E shareDraws \in [1..Cardinality(DOMAIN agent_states) -> DrawVals],
                 attrDraws \in AttrDraws(G, agent_states, out, mode) :
                 /\ agent_states' = CommitRound(agent_states, out, shareDraws)
                 /\ transmission_history' =
                        Append(transmission_history,
                               Transmissions(G, agent_states, out, mode, attrDraws))
                 /\ abm_last' = [op |-> "fake_news", args |-> a, raw |-> out.raw,
                                 returned |-> RoundResult(agent_states')]
    /\ abm_rounds' = abm_rounds + 1
    /\ abm_prev' = agent_states
    /\ UNCHANGED <<G, sim_attrs, abm_phase>>
    /\ UNCHANGED <<pbmVars, guiVars, attrVars>>

FakeNewsRound == fake_news_round(MaxRounds, RoundArgs)

\* the rounds of a run after the intervention was activated, as
\* run_next_round() calls them
DecayArgs == {a \in RoundArgs : a.intervention}

DecayRound == fake_news_round(MaxDecayRounds, DecayArgs)

NextDecay == SeedBelievers \/ DecayRound

SpecDecay == InitABM /\ [][NextDecay]_vars

\* simulate_scam_round(), called at most max_rounds times
scam_round(max_rounds) ==
    /\ abm_phase = "seeded"
    /\ abm_rounds < max_rounds
    /\ agent_states' = simulate_scam_round(G, agent_states)
    /\ abm_last' = [op |-> "scam"]
    /\ abm_rounds' = abm_rounds + 1
    /\ abm_prev' = agent_states
    /\ UNCHANGED <<G, transmission_history, sim_attrs, abm_phase>>
    /\ UNCHANGED <<pbmVars, guiVars, attrVars>>

ScamRound == scam_round(MaxRounds)

NextABM == SeedBelievers \/ FakeNewsRound

SpecABM == InitABM /\ [][NextABM]_vars

\* ------------------------------------------------------------------------
\* The scam variant on its own: construction, seed_initial_state(is_scam=True)
\* and scam rounds.
\* ------------------------------------------------------------------------
InitScam ==
    \E config \in Configs :
        IF ImportSucceeds(config)
        THEN /\ \E g \in ScamGraphs, t \in ScamTraitTables :
                   /\ G = g
                   /\ agent_states = initialize_agents(t)
             /\ sim_attrs = [attribution_mode |-> "weighted",
                             belief_inertia |-> DEFAULT_INERTIA,
                             max_belief_delta |-> DEFAULT_MAX_DELTA]
             /\ transmission_history = <<>>
             /\ abm_phase = "constructed"
             /\ abm_rounds = 0
             /\ abm_prev = agent_states
             /\ abm_last = NoCall
             /\ NoPBM
             /\ NoGUI
             /\ NoAttr
        ELSE ImportFailed

\* seed_initial_state(is_scam=True)
SeedScam ==
    /\ abm_phase = "constructed"
    /\ \E sample \in SeedSamples(DOMAIN agent_states) :
          agent_states' = seed_initial_state(agent_states, sample, TRUE)
    /\ abm_last' = [op |-> "seed", is_scam |-> TRUE]
    /\ abm_phase' = "seeded"
    /\ abm_prev' = agent_states
    /\ UNCHANGED <<G, transmission_history, sim_attrs, abm_rounds>>
    /\ UNCHANGED <<pbmVars, guiVars, attrVars>>

NextScam == SeedScam \/ ScamRound

SpecScam == InitScam /\ [][NextScam]_vars

\* the scam variant run for more rounds than there are agents
MaxScamRounds == NumAgents + 2

ScamRoundLong == scam_round(MaxScamRounds)

NextScamLong == SeedScam \/ ScamRoundLong

SpecScamLong == InitScam /\ [][NextScamLong]_vars

\* ------------------------------------------------------------------------
\* Both kinds of round on one simulator: a caller that seeds believers, may
\* seed scam victims as well, and then runs standard and scam rounds in any
\* order.
\* ------------------------------------------------------------------------
InitMixed ==
    /\ InitABM
    /\ abm_phase = "constructed" =>
          sim_attrs = [attribution_mode |-> "first",
                       belief_inertia |-> DEFAULT_INERTIA,
                       max_belief_delta |-> DEFAULT_MAX_DELTA]

\* seed_initial_state(is_scam=True) on a simulator already seeded with
\* believers
SeedScamVictims ==
    /\ abm_phase = "seeded"
    /\ abm_rounds = 0
    /\ abm_last = [op |-> "seed", is_scam |-> FALSE]
    /\ \E sample \in SeedSamples(DOMAIN agent_states) :
          agent_states' = seed_initial_state(agent_states, sample, TRUE)
    /\ abm_last' = [op |-> "seed", is_scam |-> TRUE]
    /\ abm_prev' = agent_states
    /\ UNCHANGED <<G, transmission_history, sim_attrs, abm_rounds, abm_phase>>
    /\ UNCHANGED <<pbmVars, guiVars, attrVars>>

NextMixed == SeedBelievers \/ SeedScamVictims \/ FakeNewsRound \/ ScamRound

SpecMixed == InitMixed /\ [][NextMixed]_vars

\* ------------------------------------------------------------------------
\* The update of an exposed agent on its own (lines 94-122): one agent with
\* any profile and belief, any number of sharing neighbours and any arguments
\* of a round that is not an extra round.
\* ------------------------------------------------------------------------
UpdateProfiles == {Gullible, Marginal, Skeptic, Trusting}

UpdateBeliefs == {0, 80, 500, SCALE}

\* the categories infer_topic_from_context returns, and no category
Categories == DOMAIN CATEGORY_TRAIT \cup {"None", "Uncategorized"}

StandardArgs ==
    {[a EXCEPT !.topic_category = c] :
        a \in {r \in RoundArgs : ~r.extra_rounds}, c \in Categories}

InitUpdate ==
    \E config \in Configs :
        IF ImportSucceeds(config)
        THEN /\ \E p \in UpdateProfiles, b \in UpdateBeliefs :
                   agent_states =
                       [i \in {0} |-> [initialize_agents([k \in {0} |-> p])[0]
                                          EXCEPT !.belief = b]]
             /\ \E e \in 1..MaxExposures, a \in StandardArgs :
                   abm_last = [op |-> "update_inputs", exposures |-> e, args |-> a]
             /\ G = {}
             /\ transmission_history = <<>>
             /\ sim_attrs = <<>>
             /\ abm_phase = "update"
             /\ abm_rounds = 0
             /\ abm_prev = <<>>
             /\ NoPBM
             /\ NoGUI
             /\ NoAttr
        ELSE ImportFailed

ApplyUpdate ==
    /\ abm_last.op = "update_inputs"
    /\ abm_last' =
           [op |-> "exposed_update",
            exposures |-> abm_last.exposures,
            args |-> abm_last.args,
            weights |-> calculate_trait_weights(abm_last.args.topic_category),
            new_belief |->
                ExposedUpdate(agent_states[0], abm_last.exposures, abm_last.args,
                              get_dynamic_parameters(abm_last.args.juice_factor,
                                                     abm_last.args.intervention,
                                                     abm_last.args.extra_rounds))]
    /\ UNCHANGED <<G, agent_states, transmission_history, sim_attrs, abm_phase,
                   abm_rounds, abm_prev>>
    /\ UNCHANGED <<pbmVars, guiVars, attrVars>>

NextUpdate == ApplyUpdate

SpecUpdate == InitUpdate /\ [][NextUpdate]_vars

\* ------------------------------------------------------------------------
\* Both kinds of round on a simulator of one agent more, seeded with believers
\* and, if the caller wishes, with scam victims: two agents are left
\* unscammed, so that one can be scammed in the round in which its neighbour
\* is.
\* ------------------------------------------------------------------------
NextOrder ==
    \/ SeedBelievers
    \/ SeedScamVictims
    \/ (abm_rounds < MaxOrderRounds /\ FakeNewsRound)
    \/ (abm_rounds < MaxOrderRounds /\ ScamRound)

SpecOrder == InitScam /\ [][NextOrder]_vars

\* ------------------------------------------------------------------------
\* tools/test_attribution.py: one run per attribution mode, each started from
\* the same seed, so that each reads the same words from Python's generator.
\* The generator yields 32-bit words; a word is held as the thousandths of
\* 2^32 it amounts to.  random.random() reads two words, and random.choice()
\* the words its getrandbits() calls take; np.random.choice() (mode
\* 'weighted') reads numpy's generator, which nothing else reads.  So the
\* runs in modes 'weighted' and 'first' read two words per agent and round,
\* and the run in mode 'random' reads these and the words of its choices: it
\* is ahead of the two others by the words its choices took.  py_tape holds
\* the words the run in mode 'random' has read and the two others will read,
\* in the order the generator yields them, each as the range lo .. hi - 1
\* the decisions made with it leave for it.
\* ------------------------------------------------------------------------
\* random.random(): (a >> 5, b >> 6) of the words a and b make the 53 bits of
\* the value, which is a / 2^32 to 27 bits
PyRandom(a, b) == a

\* n.bit_length()
BitLength(n) == IF n < 2 THEN 1 ELSE IF n < 4 THEN 2 ELSE IF n < 8 THEN 3 ELSE 4

\* the words a run without random.choice() calls reads in run_test: the words
\* of the generator past these are read by the run in mode 'random' alone
Horizon == 2 * NumAgents * AttrRounds

\* the least value of random.random(), in thousandths, that is not below
\* p_share
ShareCut(p_share) == (p_share + SCALE - 1) \div SCALE

\* the least word with which getrandbits(n.bit_length()) returns r
BitCut(n, r) == (r * SCALE + 2 ^ BitLength(n) - 1) \div (2 ^ BitLength(n))

\* the values at which a sharing decision of the round changes with the q-th
\* word after those the runs in modes 'weighted' and 'first' have read, the
\* run in mode 'random' being ahead of them by ahead words: the word is the
\* first of an agent's random.random() in some run
ShareCuts(outs, ahead, q) ==
    UNION { {ShareCut(outs[m].p_share[j - 1]) :
                j \in {k \in 1..NumAgents :
                          (IF m = "random" THEN ahead ELSE 0) + 2 * k - 1 = q}} :
            m \in Modes }

\* a word known to lie in w.lo .. w.hi - 1, narrowed to each of the ranges of
\* words with which the round decides the same
WordRanges(w, cuts) ==
    LET los == {w.lo} \cup {c \in cuts : w.lo < c /\ c < w.hi}
    IN  { [lo |-> v,
           hi |-> LET above == {c \in los : v < c} \cup {w.hi}
                  IN  CHOOSE h \in above : \A c \in above : h <= c] : v \in los }

\* the sequences that take their k-th entry from sets[k]
RECURSIVE TapeValues(_)
TapeValues(sets) ==
    IF sets = <<>>
    THEN {<<>>}
    ELSE {<<v>> \o rest : v \in Head(sets), rest \in TapeValues(Tail(sets))}

\* the random.choice() calls of a round, ns being the numbers of candidates
\* of its records: _randbelow(n) reads a word for getrandbits(n.bit_length())
\* until the value is below n, and returns it.  draws are the values
\* returned, words the words read, of which the first room are kept: those
\* another run will read.  Any number of words can be rejected before one is
\* accepted.
RECURSIVE ChoiceWords(_, _)
ChoiceWords(ns, room) ==
    IF ns = <<>>
    THEN {[words |-> <<>>, draws |-> <<>>]}
    ELSE LET n == Head(ns)
             rejected == [lo |-> BitCut(n, n), hi |-> SCALE]
         IN  \* j words rejected and the next accepted, all of them kept
             UNION { { [words |-> [k \in 1..j |-> rejected]
                                     \o <<[lo |-> BitCut(n, r),
                                           hi |-> BitCut(n, r + 1)]>>
                                     \o rest.words,
                        draws |-> <<r>> \o rest.draws] :
                       rest \in ChoiceWords(Tail(ns), room - j - 1) } :
                     j \in 0..(room - 1), r \in 0..(n - 1) }
             \cup
             \* every word that is kept rejected; the word accepted and the
             \* words of the later records are not kept
             { [words |-> [k \in 1..room |-> rejected],
                draws |-> <<r>> \o rest.draws] :
               r \in 0..(n - 1), rest \in ChoiceWords(Tail(ns), 0) }

\* a round of one run, out being its RoundOutcome: shareDraws are the values
\* its random.random() calls return, draws those its attribution takes
AttrRunRound(g, run, mode, out, shareDraws, draws) ==
    [agent_states |-> CommitRound(run.agent_states, out, shareDraws),
     transmission_history |->
         Append(run.transmission_history,
                Transmissions(g, run.agent_states, out, mode, draws))]

\* the arguments run_test passes to every round (line 25)
TestArgs ==
    [juice_factor |-> 500, topic_weight |-> 500, topic_category |-> "None",
     intervention |-> FALSE, extra_rounds |-> FALSE]

\* run_test leaves the smoothing attributes unset
InitAttr ==
    \E config \in Configs :
        IF ImportSucceeds(config)
        THEN /\ \E g \in Graphs, t \in TraitTables :
                   /\ G = g
                   /\ agent_states = initialize_agents(t)
                   /\ sim_attrs = [belief_inertia |-> DEFAULT_INERTIA,
                                   max_belief_delta |-> DEFAULT_MAX_DELTA]
             /\ transmission_history = <<>>
             /\ abm_phase = "constructed"
             /\ abm_rounds = 0
             /\ abm_prev = agent_states
             /\ abm_last = NoCall
             /\ py_tape = <<>>
             /\ attr_runs = <<>>
             /\ NoPBM
             /\ NoGUI
        ELSE ImportFailed

\* every run builds its simulator from the same seed: the same traits, graph
\* and sample of initial believers
SeedAttrRuns ==
    /\ abm_phase = "constructed"
    /\ \E sample \in SeedSamples(DOMAIN agent_states) :
          attr_runs' = [m \in Modes |->
                          [agent_states |->
                               seed_initial_state(agent_states, sample, FALSE),
                           transmission_history |-> <<>>]]
    /\ abm_phase' = "seeded"
    /\ abm_last' = [op |-> "seed", is_scam |-> FALSE]
    /\ UNCHANGED <<G, agent_states, transmission_history, sim_attrs, abm_rounds,
                   abm_prev, py_tape>>
    /\ UNCHANGED <<pbmVars, guiVars>>

\* every run executes its next round, with the same arguments; the generator
\* yields as many further words as the runs read
AttrRound ==
    /\ abm_phase = "seeded"
    /\ abm_rounds < AttrRounds
    /\ \E outs \in {[m \in Modes |->
                       RoundOutcome(G, attr_runs[m].agent_states, TestArgs,
                                    sim_attrs)]} :
          LET \* the words the runs in modes 'weighted' and 'first' have yet
              \* to read, and those of them the run in mode 'random' has read
              left == Horizon - 2 * NumAgents * abm_rounds
              ahead == Len(py_tape)
              \* the words up to the last word of a sharing decision
              shared == ahead + 2 * NumAgents
              tape == py_tape \o [q \in 1..(2 * NumAgents) |->
                                     [lo |-> 0, hi |-> SCALE]]
              ns == [k \in 1..Len(outs["random"].targets) |->
                        Len(SourceCandidates(G, attr_runs["random"].agent_states,
                                             outs["random"].targets[k]))]
          IN  \E decided \in TapeValues([q \in 1..shared |->
                                 WordRanges(tape[q], ShareCuts(outs, ahead, q))]),
                 chosen \in ChoiceWords(ns, Max(0, left - shared)),
                 npDraws \in [1..Len(outs["weighted"].targets) -> DrawVals] :
                 LET ranges == decided \o chosen.words
                     shareDraws == [m \in Modes |-> [k \in 1..NumAgents |->
                         LET q == (IF m = "random" THEN ahead ELSE 0) + 2 * k
                         IN  PyRandom(decided[q - 1].lo, decided[q].lo)]]
                     draws == [m \in Modes |->
                                  IF m = "random" THEN chosen.draws
                                  ELSE IF m = "weighted" THEN npDraws
                                  ELSE <<>>]
                 IN  /\ attr_runs' = [m \in Modes |->
                            AttrRunRound(G, attr_runs[m], m, outs[m],
                                         shareDraws[m], draws[m])]
                     /\ py_tape' = SubSeq(ranges, 2 * NumAgents + 1,
                                          Min(Len(ranges), left))
    /\ abm_last' = [op |-> "fake_news", args |-> TestArgs]
    /\ abm_rounds' = abm_rounds + 1
    /\ UNCHANGED <<G, agent_states, transmission_history, sim_attrs, abm_phase,
                   abm_prev>>
    /\ UNCHANGED <<pbmVars, guiVars>>

NextAttr == SeedAttrRuns \/ AttrRound

SpecAttr == InitAttr /\ [][NextAttr]_vars

\* ------------------------------------------------------------------------
\* FakeNewsSimulatorGUI: the Run and Reset buttons, the parameter panel and
\* the automate_rounds callback that root.after schedules.
\* ------------------------------------------------------------------------
INITIAL_MAX_ROUNDS == 24

RESET_MAX_ROUNDS == 10

\* analyze_context_juiciness and infer_topic_from_context on four context
\* strings
EmptyContext ==
    [juiciness |-> 50, topic |-> "General Rumor", topic_weight |-> 1000,
     topic_category |-> "Uncategorized"]

\* "financial scam"
ScamContext ==
    [juiciness |-> 25, topic |-> "Financial Scam", topic_weight |-> 1000,
     topic_category |-> "Financial Scams"]

\* "campus virus leak outbreak deadly"
VirusContext ==
    [juiciness |-> 100, topic |-> "Campus Virus Leak", topic_weight |-> 1500,
     topic_category |-> "Health Scare"]

\* "crypto investment scheme"
CryptoContext ==
    [juiciness |-> 15, topic |-> "Crypto Investment Scheme", topic_weight |-> 1100,
     topic_category |-> "Financial Scams"]

\* settings of the PBM sliders and spinboxes: the defaults with one initial
\* believer, and a panel the user moved
DefaultPanel ==
    [pbm_contact_rate_var |-> 400, pbm_belief_rate_var |-> 300,
     pbm_recovery_rate_var |-> 100, pbm_initial_believers_var |-> 1,
     calibration_multiplier_var |-> 3000]

MovedPanel ==
    [pbm_contact_rate_var |-> 550, pbm_belief_rate_var |-> 450,
     pbm_recovery_rate_var |-> 200, pbm_initial_believers_var |-> 2,
     calibration_multiplier_var |-> 0]

\* the ABM sharing sliders and the attribution combobox after setup_ui
\* (lines 373-386)
DefaultSharing ==
    [share_belief_var |-> 4000, share_emotion_var |-> 1500,
     share_conf_var |-> 1000, share_juice_var |-> 1000,
     attribution_var |-> "Weighted by source belief"]

\* what the user entered before pressing Run: the context and the PBM panel
Sessions ==
    { [context |-> EmptyContext, pbm |-> DefaultPanel],
      [context |-> ScamContext, pbm |-> DefaultPanel],
      [context |-> VirusContext, pbm |-> MovedPanel],
      [context |-> CryptoContext, pbm |-> DefaultPanel] }

\* the CSV files under data/, each named by the number of its rows; the file
\* of no rows holds the header line
CsvFiles == 0..GuiAgents

\* a name under which data/ holds no file
MissingCsv == -1

\* pd.read_csv: one row for each agent
CsvTable(f) == [i \in 0..(f - 1) |-> MixedTable[i]]

\* the profiles the GUI can hold in df_agents
GuiTraitTables == {CsvTable(f) : f \in CsvFiles}

\* _load_agent_data with abm_csv_var set: df_agents is read from the file the
\* combobox names
load_agent_data(w) == [w EXCEPT !.df_agents = CsvTable(w.abm_csv_var)]

\* nx.erdos_renyi_graph(n, 0.2): any graph on the agents 0 .. n - 1
GuiGraphs(n) ==
    SUBSET {e \in SUBSET (0..(n - 1)) : Cardinality(e) = 2}

\* the draws of a round of the GUI's simulator, one for each agent
GuiShareDraws(n) == [1..n -> DrawVals]

\* self.juiciness.get() / 100.0, of a record that holds the juiciness
JuiceOf(topic) == (topic.juiciness * SCALE) \div 100

\* self.juiciness after setup_ui: tk.IntVar(value=50)
INITIAL_JUICINESS == 50

\* scenario files the "Load Scenario" button can apply: a dictionary sets the
\* controls it has a key for.  The third is a file as _save_current_scenario
\* writes it, the fourth uses the alternate key names and names a CSV file
\* that is not under data/.
ScenarioFiles ==
    { [intervention_round |-> 1],
      [context |-> ScamContext, juiciness |-> 80, max_rounds |-> 2],
      [context |-> CryptoContext, abm_csv |-> 0, juiciness |-> 15,
       max_rounds |-> 1, intervention_round |-> 0,
       abm_sharing_params |->
           [share_belief_weight |-> 2000, share_emotional_weight |-> 1500,
            share_conf_weight |-> 1000, share_juice_weight |-> 1000,
            attribution_mode |-> "First sharer"],
       pbm_rates |-> [contact_rate |-> 550, belief_rate |-> 450,
                      recovery_rate |-> 200, initial_believers |-> 2],
       advanced_params |-> [calibration_multiplier |-> 0]],
      [abm_csv |-> MissingCsv,
       abm_sharing_params |-> [share_confirmation_weight |-> 500,
                               share_juice_var |-> 2000],
       pbm_rates |-> [recovery_rate |-> 200]] }

\* data.get(key, {}) or {}
ScenarioPart(data, key) == IF key \in DOMAIN data THEN data[key] ELSE <<>>

\* _set_if: the value of the first of dkeys that params holds, old if it
\* holds none of them
RECURSIVE set_if(_, _, _)
set_if(old, params, dkeys) ==
    IF dkeys = <<>>
    THEN old
    ELSE IF Head(dkeys) \in DOMAIN params
         THEN params[Head(dkeys)]
         ELSE set_if(old, params, Tail(dkeys))

\* _apply_scenario: the controls after the dictionary was applied
apply_scenario(w, data) ==
    LET abm_params == ScenarioPart(data, "abm_sharing_params")
        pbm == ScenarioPart(data, "pbm_rates")
        adv == ScenarioPart(data, "advanced_params")
        \* set csv combobox if file exists under data/
        csv == IF "abm_csv" \in DOMAIN data /\ data.abm_csv \in CsvFiles
               THEN load_agent_data([w EXCEPT !.abm_csv_var = data.abm_csv])
               ELSE w
    IN  [csv EXCEPT
            !.context = IF "context" \in DOMAIN data THEN data.context ELSE @,
            !.juiciness = IF "juiciness" \in DOMAIN data THEN data.juiciness ELSE @,
            !.max_rounds_var =
                IF "max_rounds" \in DOMAIN data THEN data.max_rounds ELSE @,
            !.intervention_round_var =
                IF "intervention_round" \in DOMAIN data
                THEN data.intervention_round ELSE @,
            !.share =
                [share_belief_var |->
                     set_if(@.share_belief_var, abm_params,
                            <<"share_belief_weight", "share_belief_var">>),
                 share_emotion_var |->
                     set_if(@.share_emotion_var, abm_params,
                            <<"share_emotional_weight", "share_emotion_var">>),
                 share_conf_var |->
                     set_if(@.share_conf_var, abm_params,
                            <<"share_conf_weight", "share_confirmation_weight",
                              "share_conf_var">>),
                 share_juice_var |->
                     set_if(@.share_juice_var, abm_params,
                            <<"share_juice_weight", "share_juice_var">>),
                 attribution_var |->
                     set_if(@.attribution_var, abm_params,
                            <<"attribution_mode">>)],
            !.pbm =
                [pbm_contact_rate_var |->
                     set_if(@.pbm_contact_rate_var, pbm, <<"contact_rate">>),
                 pbm_belief_rate_var |->
                     set_if(@.pbm_belief_rate_var, pbm, <<"belief_rate">>),
                 pbm_recovery_rate_var |->
                     set_if(@.pbm_recovery_rate_var, pbm, <<"recovery_rate">>),
                 pbm_initial_believers_var |->
                     set_if(@.pbm_initial_believers_var, pbm,
                            <<"initial_believers">>),
                 calibration_multiplier_var |->
                     set_if(@.calibration_multiplier_var, adv,
                            <<"calibration_multiplier">>)]]

\* what the user can change in one widget of the parameter panel (setup_ui):
\* the context Entry, the juiciness Scale, the two Spinboxes, the PBM and
\* calibration sliders, the sharing sliders and the attribution combobox
PanelEdits(w) ==
    {[w EXCEPT !.context = c] : c \in {EmptyContext, VirusContext}}
    \cup {[w EXCEPT !.juiciness = 80]}
    \cup {[w EXCEPT !.max_rounds_var = v] : v \in {1, MaxGuiRounds}}
    \cup {[w EXCEPT !.intervention_round_var = v] : v \in {0, MaxGuiRounds}}
    \cup {[w EXCEPT !.pbm.pbm_contact_rate_var = 550],
          [w EXCEPT !.pbm.pbm_belief_rate_var = 450],
          [w EXCEPT !.pbm.pbm_recovery_rate_var = 200],
          [w EXCEPT !.pbm.pbm_initial_believers_var = 2],
          [w EXCEPT !.pbm.calibration_multiplier_var = 0],
          [w EXCEPT !.share.share_belief_var = 2000],
          [w EXCEPT !.share.attribution_var = "Random among sharers"]}

\* a test of the topic's category in place of its name
IsScamCategory(topic) == topic.topic_category = "Financial Scams"

\* self._sim_topic == "Financial Scam" (lines 1482, 1623)
IsScamTopic(topic) == topic.topic = "Financial Scam"

\* the attributes the simulator is left with: the first getattr default of
\* _init_simulators' try block, tk.DoubleVar(4.0), raises AttributeError, so
\* no attribute is assigned, whatever the sharing sliders and the attribution
\* combobox show, and the defaults of simulator.py apply
GuiSimAttrs ==
    [attribution_mode |-> "weighted", belief_inertia |-> DEFAULT_INERTIA,
     max_belief_delta |-> DEFAULT_MAX_DELTA]

\* the rates _init_simulators leaves in the PBM: adjust_rates, the panel's
\* override, then the calibration by the density of the ABM graph
GuiInitialRates(topic, panel, g, n) ==
    LET adjusted == adjust_rates(SimulationRates, topic.topic_weight,
                                 JuiceOf(topic), FALSE)
        cr == panel.pbm_contact_rate_var
        br == panel.pbm_belief_rate_var
        rr == panel.pbm_recovery_rate_var
        overridden ==
            [contact_rate |-> IF 0 <= cr /\ cr <= SCALE THEN cr
                              ELSE adjusted.contact_rate,
             belief_rate |-> IF 0 <= br /\ br <= SCALE THEN br
                             ELSE adjusted.belief_rate,
             recovery_rate |-> IF 0 <= rr /\ rr <= SCALE THEN rr
                               ELSE adjusted.recovery_rate]
        \* np.mean(degrees) if len(degrees) > 0 else 0.0
        avg_deg == IF n > 0 THEN (2 * Cardinality(g) * SCALE) \div n ELSE 0
        density == avg_deg \div Max(1, n - 1)
        scale == SCALE + Mul(panel.calibration_multiplier_var, density)
    IN  [overridden EXCEPT
            !.contact_rate = Min(950, Mul(overridden.contact_rate, scale))]

\* the count run_next_round appends to abm_results['believer_counts']: the
\* flags the ABM round returned; _init_simulators counts the seeded agents
BelieverCount(st, is_scam) ==
    Cardinality({i \in DOMAIN st :
                    IF is_scam THEN st[i].scammed ELSE st[i].shared})

\* abm_results['believer_counts'], a list the GUI appends to and draws: its
\* length and its last entry
FirstCount(count) == [len |-> 1, last |-> count]

AppendCount(counts, count) == [len |-> counts.len + 1, last |-> count]

\* run_next_round without its adjust_rates call
PbmAdjustSkipped(intervention) == FALSE

\* run_next_round: if self.intervention: self.pbm_simulator.adjust_rates(...)
PbmAdjustCalled(intervention) == intervention

\* the calls run_next_round makes on the PBM, in order
PbmCalls(intervention) ==
    IF PbmAdjustCalled(intervention)
    THEN <<"adjust_rates", "simulate_step">>
    ELSE <<"simulate_step">>

\* the calls run_next_round makes on the two simulators, in order: the ABM
\* round of the run's variant, then those on the PBM
RoundCalls(is_scam, intervention) ==
    <<IF is_scam THEN "simulate_scam_round" ELSE "simulate_fake_news_round">>
        \o PbmCalls(intervention)

\* automate_rounds and run_next_round: if self.round >= self.max_rounds: return
RoundsExhausted(rnd, max) == rnd >= max

\* automate_rounds: if self.round == int_round and not self.intervention
InterventionDueLate(rnd, int_round, flag) == rnd > int_round /\ ~flag

InterventionDue(rnd, int_round, flag) == rnd = int_round /\ ~flag

\* the GUI after __init__ and setup_ui, the user having filled in the panel:
\* _load_agent_data has read the CSV file the combobox starts with
InitGUI ==
    \E config \in Configs :
        IF ImportSucceeds(config)
        THEN /\ gui = [round |-> 0, max_rounds |-> INITIAL_MAX_ROUNDS,
                       intervention |-> FALSE, extra_rounds |-> FALSE,
                       intervention_rounds |-> <<>>,
                       abm_results |-> <<>>, pbm_results |-> <<>>]
             /\ \E mr \in 1..MaxGuiRounds, ir \in 0..MaxGuiRounds, s \in Sessions,
                   f \in CsvFiles :
                   widgets = [max_rounds_var |-> mr, intervention_round_var |-> ir,
                              context |-> s.context, juiciness |-> INITIAL_JUICINESS,
                              pbm |-> s.pbm, share |-> DefaultSharing,
                              abm_csv_var |-> f, df_agents |-> CsvTable(f),
                              run_btn |-> TRUE, reset_btn |-> FALSE]
             /\ sim_topic = <<>>
             /\ timers = 0
             /\ gui_run = "none"
             /\ abm_calls = <<>>
             /\ edits = 0
             /\ NoPBM
             /\ NoABM
             /\ NoAttr
        ELSE ImportFailed

\* the Run button: init_simulation, which calls _init_simulators
InitSimulation ==
    /\ widgets # <<>>
    /\ widgets.run_btn
    /\ timers < MaxTimers
    /\ sim_topic' = widgets.context
    /\ \E t \in {widgets.df_agents} :
          \E g \in GuiGraphs(Cardinality(DOMAIN t)),
             sample \in SeedSamples(DOMAIN t) :
             /\ G' = g
             /\ agent_states' = seed_initial_state(initialize_agents(t), sample,
                                                   IsScamTopic(sim_topic'))
             /\ abm_prev' = initialize_agents(t)
             /\ rates' = GuiInitialRates(sim_topic', widgets.pbm, g,
                                         Cardinality(DOMAIN t))
    /\ sim_attrs' = GuiSimAttrs
    /\ transmission_history' = <<>>
    /\ abm_phase' = "seeded"
    /\ abm_rounds' = 0
    /\ abm_last' = [op |-> "seed", is_scam |-> IsScamTopic(sim_topic')]
    /\ LET \* the spinbox holds a positive number, which replaces the estimate
           user_init == widgets.pbm.pbm_initial_believers_var
           p == PBMConstruct(Cardinality(DOMAIN widgets.df_agents), user_init)
       IN  /\ total_population' = p.total_population
           /\ susceptible' = p.susceptible
           /\ believers' = p.believers
           /\ immune' = p.immune
           /\ history' = p.history
           /\ gui' = [round |-> 0, max_rounds |-> widgets.max_rounds_var,
                      intervention |-> FALSE, extra_rounds |-> FALSE,
                      intervention_rounds |-> <<>>,
                      abm_results |->
                          FirstCount(BelieverCount(agent_states',
                                                   IsScamTopic(sim_topic'))),
                      pbm_results |-> <<Trunc(p.believers)>>]
    /\ pbm_raised' = FALSE
    /\ pbm_last' = [op |-> "init_simulators"]
    /\ widgets' = [widgets EXCEPT !.juiciness = sim_topic'.juiciness,
                                  !.run_btn = FALSE, !.reset_btn = TRUE]
    /\ timers' = timers + 1
    /\ gui_run' = "running"
    /\ abm_calls' = <<>>
    /\ UNCHANGED edits
    /\ UNCHANGED attrVars

\* the Reset button
ResetSimulation ==
    /\ widgets # <<>>
    /\ widgets.reset_btn
    /\ gui' = [gui EXCEPT !.round = 0, !.max_rounds = RESET_MAX_ROUNDS,
                          !.intervention = FALSE]
    /\ widgets' = [widgets EXCEPT !.run_btn = TRUE, !.reset_btn = FALSE]
    /\ gui_run' = "reset"
    /\ UNCHANGED <<sim_topic, timers, abm_calls, edits>>
    /\ UNCHANGED <<pbmVars, abmVars, attrVars>>

\* the user changes the panel, before, during or after a run: w is the panel
\* after the change
ChangePanel(w) ==
    /\ edits < MaxEdits
    /\ widgets' = w
    /\ edits' = edits + 1
    /\ UNCHANGED <<gui, sim_topic, timers, gui_run, abm_calls>>
    /\ UNCHANGED <<pbmVars, abmVars, attrVars>>

\* the "Load Scenario" button (_on_scenario_load, _apply_scenario); files are
\* the files the user can pick
on_scenario_load(files) ==
    /\ widgets # <<>>
    /\ \E data \in files : ChangePanel(apply_scenario(widgets, data))

ApplyScenario == on_scenario_load(ScenarioFiles)

\* the user picks a file in the CSV combobox, which sets abm_csv_var;
\* <<ComboboxSelected>> is bound to _load_agent_data (line 332)
LoadAgentData ==
    /\ widgets # <<>>
    /\ \E f \in CsvFiles :
          ChangePanel(load_agent_data([widgets EXCEPT !.abm_csv_var = f]))

\* the user moves a slider, edits a spinbox or the context, or picks an
\* attribution mode
EditPanel ==
    /\ widgets # <<>>
    /\ \E w \in PanelEdits(widgets) : ChangePanel(w)

\* a pending automate_rounds callback runs: the whole handler, run_next_round
\* included.  With a CSV file of no rows the PBM's population is 0 and
\* simulate_step raises ZeroDivisionError, which ends the callback after the
\* ABM round and the adjust_rates call: the round counter is not advanced and
\* the callback is not scheduled again.
AutomateRounds ==
    /\ timers > 0
    /\ IF RoundsExhausted(gui.round, gui.max_rounds)
       THEN /\ timers' = timers - 1
            /\ UNCHANGED <<gui, sim_topic, widgets, gui_run, abm_calls, edits>>
            /\ UNCHANGED <<pbmVars, abmVars, attrVars>>
       ELSE LET int_round == widgets.intervention_round_var
                due == InterventionDue(gui.round, int_round, gui.intervention)
                flag == gui.intervention \/ due
                is_scam == IsScamTopic(sim_topic)
                a == [juice_factor |-> JuiceOf(widgets),
                      topic_weight |-> sim_topic.topic_weight,
                      topic_category |-> sim_topic.topic_category,
                      intervention |-> flag,
                      extra_rounds |-> gui.extra_rounds]
                r1 == IF PbmAdjustCalled(flag)
                      THEN adjust_rates(rates, sim_topic.topic_weight,
                                        JuiceOf(widgets), TRUE)
                      ELSE rates
                raises == total_population = 0
                call == [index |-> gui.round, int_round |-> int_round,
                         intervention |-> flag,
                         calls |-> RoundCalls(is_scam, flag),
                         raised |-> raises,
                         recovery_rate |-> r1.recovery_rate]
            IN  \* the ABM round
                /\ IF is_scam
                   THEN /\ agent_states' = simulate_scam_round(G, agent_states)
                        /\ abm_last' = [op |-> "scam"]
                        /\ abm_calls' = Append(abm_calls,
                               [kind |-> "scam"] @@ call)
                        /\ UNCHANGED transmission_history
                   ELSE \E out \in {RoundOutcome(G, agent_states, a, sim_attrs)} :
                        \E shareDraws \in
                               GuiShareDraws(Cardinality(DOMAIN agent_states)),
                           attrDraws \in AttrDraws(G, agent_states, out,
                                                    sim_attrs.attribution_mode) :
                           /\ agent_states' =
                                  CommitRound(agent_states, out, shareDraws)
                           /\ transmission_history' =
                                  Append(transmission_history,
                                         Transmissions(G, agent_states, out,
                                                       sim_attrs.attribution_mode,
                                                       attrDraws))
                           /\ abm_last' = [op |-> "fake_news", args |-> a,
                                           raw |-> out.raw]
                           /\ abm_calls' = Append(abm_calls,
                                  [kind |-> "fake_news", args |-> a] @@ call)
                /\ abm_rounds' = abm_rounds + 1
                /\ abm_prev' = agent_states
                \* the PBM step
                /\ rates' = r1
                /\ IF raises
                   THEN /\ pbm_raised' = TRUE
                        /\ pbm_last' = [op |-> "step_raised"]
                        /\ UNCHANGED <<susceptible, believers, immune, history>>
                        /\ gui' = [gui EXCEPT
                                      !.intervention = flag,
                                      !.intervention_rounds =
                                          IF due THEN Append(@, gui.round) ELSE @,
                                      !.abm_results =
                                          AppendCount(@,
                                              BelieverCount(agent_states', is_scam))]
                        /\ timers' = timers - 1
                   ELSE LET nb == NewBelievers(r1, total_population, susceptible,
                                               believers)
                            rec == Recoveries(r1, believers)
                        IN  /\ susceptible' = StepSusceptible(susceptible, nb)
                            /\ believers' = StepBelievers(believers, nb, rec)
                            /\ immune' = StepImmune(immune, rec)
                            /\ \E entry \in StepEntries(r1, history[Len(history)],
                                                        susceptible, believers,
                                                        susceptible', believers',
                                                        immune') :
                                  history' = Append(history, entry)
                            /\ pbm_last' =
                                   [op |-> "step", S |-> susceptible,
                                    I |-> believers, R |-> immune,
                                    exposure_rate |->
                                        ExposureRate(r1, total_population,
                                                     susceptible, believers),
                                    new_believers |-> nb, recoveries |-> rec]
                            \* the counters and the next callback
                            /\ gui' = [gui EXCEPT
                                          !.round = gui.round + 1,
                                          !.intervention = flag,
                                          !.intervention_rounds =
                                              IF due THEN Append(@, gui.round) ELSE @,
                                          !.abm_results =
                                              AppendCount(@,
                                                  BelieverCount(agent_states',
                                                                is_scam)),
                                          !.pbm_results =
                                              Append(@, history'[Len(history')][2])]
                            /\ timers' = IF gui.round + 1 < gui.max_rounds
                                         THEN timers ELSE timers - 1
                            /\ UNCHANGED pbm_raised
                /\ UNCHANGED <<G, sim_attrs, abm_phase, total_population,
                               sim_topic, widgets, gui_run, edits>>
                /\ UNCHANGED attrVars

NextGUI ==
    \/ InitSimulation
    \/ ResetSimulation
    \/ ApplyScenario
    \/ LoadAgentData
    \/ EditPanel
    \/ AutomateRounds

SpecGUI == InitGUI /\ [][NextGUI]_vars

\* ------------------------------------------------------------------------
\* The "Add 10 More Rounds" button: add_more_rounds is the handler that
\* _add_summary_controls gives the button.  Nothing calls
\* _add_summary_controls (show_summary fills the tabs of the main window), so
\* the button is never made and the handler is no step of the GUI.
\* ------------------------------------------------------------------------
EXTEND_ROUNDS == 10

\* self.max_rounds += 10
ExtendedMaxRounds(max_rounds) == max_rounds + EXTEND_ROUNDS

add_more_rounds ==
    /\ gui' = [gui EXCEPT !.max_rounds = ExtendedMaxRounds(@),
                          !.extra_rounds = TRUE]
    /\ timers' = timers + 1
    /\ UNCHANGED <<sim_topic, widgets, gui_run, abm_calls, edits>>
    /\ UNCHANGED <<pbmVars, abmVars, attrVars>>

\* ------------------------------------------------------------------------
\* Properties of the PBM (SpecPBM)
\* ------------------------------------------------------------------------
\* C1: after construction and after every simulate_step, with adjust_rates
\* calls interleaved, susceptible + believers + immune equals N.
C1_Conservation ==
    susceptible + believers + immune = total_population * SCALE

\* C5: an adjust_rates call leaves a contact_rate that was not 0.4, and a
\* belief_rate that was not 0.3, unchanged.
C5_RatePinning ==
    pbm_last.op = "adjust" =>
        /\ pbm_last.before.contact_rate # DEFAULT_CONTACT_RATE
              => rates.contact_rate = pbm_last.before.contact_rate
        /\ pbm_last.before.belief_rate # DEFAULT_BELIEF_RATE
              => rates.belief_rate = pbm_last.before.belief_rate

\* C6: the mass a simulate_step moves out of susceptible is at most
\* MAX_NEW_BELIEVER_RATIO times the susceptible count before the step and at
\* most the exposure rate of the step.
C6_BoundedConversion ==
    pbm_last.op = "step" =>
        /\ pbm_last.new_believers <= Mul(pbm_last.S, MAX_NEW_BELIEVER_RATIO)
        /\ pbm_last.new_believers <= pbm_last.exposure_rate
        /\ pbm_last.S - susceptible <= Mul(pbm_last.S, MAX_NEW_BELIEVER_RATIO)
        /\ pbm_last.S - susceptible <= pbm_last.exposure_rate

\* a step in which the cap of 0.3 * S is what limits the conversion
C6_CapBinds ==
    /\ pbm_last.op = "step"
    /\ pbm_last.S > 0
    /\ pbm_last.exposure_rate > Mul(pbm_last.S, MAX_NEW_BELIEVER_RATIO)
    /\ pbm_last.S - susceptible = Mul(pbm_last.S, MAX_NEW_BELIEVER_RATIO)

\* ------------------------------------------------------------------------
\* Properties of the ABM's standard round (SpecABM)
\* ------------------------------------------------------------------------
\* C2: an immune agent has belief 0 and does not share, and an agent that was
\* immune before a simulate_fake_news_round is immune after it, whatever the
\* arguments and the draws of the round.
C2_ImmunityMonotone ==
    \A i \in DOMAIN agent_states :
        /\ agent_states[i].immune =>
              agent_states[i].belief = 0 /\ ~agent_states[i].shared
        /\ abm_last.op = "fake_news" /\ abm_prev[i].immune =>
              agent_states[i].immune

\* an immune agent went through a round in which its sharing neighbours
\* pushed its new belief above the belief threshold
C2_ImmuneAgentExposed ==
    /\ abm_last.op = "fake_news"
    /\ \E i \in DOMAIN agent_states :
          /\ abm_prev[i].immune
          /\ Exposures(G, abm_prev, i) > 0
          /\ abm_last.raw[i] > ThetaB(abm_last.args)
          /\ agent_states[i].immune

\* ------------------------------------------------------------------------
\* Properties of the scam round (SpecScam)
\* ------------------------------------------------------------------------
\* C7: an agent not scammed before a simulate_scam_round is scammed after it
\* exactly when a neighbour was scammed before the round and
\* clamp(0.5*trust_level + 0.4*(1 - risk_perception) - 0.3*critical_thinking,
\* 0, 1) > 0.5; two such agents with equal traits and equal exposure counts
\* get the same outcome.
C7_ScamRule ==
    abm_last.op = "scam" =>
        /\ \A i \in DOMAIN agent_states :
              ~abm_prev[i].scammed =>
                 LET s == agent_states[i]
                     p == (500 * s.trust_level) \div SCALE
                          + (400 * (SCALE - s.risk_perception)) \div SCALE
                          - (300 * s.critical_thinking) \div SCALE
                     clamped == IF p < 0 THEN 0 ELSE IF p > SCALE THEN SCALE ELSE p
                 IN  s.scammed <=>
                        /\ \E j \in DOMAIN agent_states :
                              {i, j} \in G /\ abm_prev[j].scammed
                        /\ clamped > 500
        /\ \A i, j \in DOMAIN agent_states :
              /\ ~abm_prev[i].scammed /\ ~abm_prev[j].scammed
              /\ \A trait \in {"trust_level", "risk_perception", "critical_thinking",
                                "confirmation_bias", "emotional_susceptibility",
                                "fact_check_signal"} :
                    agent_states[i][trait] = agent_states[j][trait]
              /\ Cardinality({k \in DOMAIN abm_prev :
                                 {i, k} \in G /\ abm_prev[k].scammed})
                    = Cardinality({k \in DOMAIN abm_prev :
                                     {j, k} \in G /\ abm_prev[k].scammed})
              => agent_states[i].scammed = agent_states[j].scammed

\* a scam round scammed one of two unscammed agents with a scammed neighbour
\* and left the other, whose traits differ, unscammed
C7_NewlyScammed ==
    /\ abm_last.op = "scam"
    /\ \E i, j \in DOMAIN agent_states :
          /\ ~abm_prev[i].scammed /\ agent_states[i].scammed
          /\ ~abm_prev[j].scammed /\ ~agent_states[j].scammed
          /\ \E k \in DOMAIN agent_states : {j, k} \in G /\ abm_prev[k].scammed

\* C8: an agent scammed before a call, by seeding or by a scam round, is
\* scammed after it: the set of scammed agents never shrinks.
C8_ScamPermanent ==
    \A i \in DOMAIN agent_states :
        abm_prev[i].scammed => agent_states[i].scammed

\* a scam round left scammed a seeded agent whose own traits give P_scam <= 0.5
C8_ResistantStaysScammed ==
    /\ abm_last.op = "scam"
    /\ \E i \in DOMAIN agent_states :
          /\ abm_prev[i].scammed
          /\ PScam(agent_states[i]) <= 500
          /\ agent_states[i].scammed

\* ------------------------------------------------------------------------
\* Properties of the attribution test (SpecAttr)
\* ------------------------------------------------------------------------
\* C4: after every round the belief and the shared flag of every agent are
\* the same in the three runs, which differ only in the attribution mode.
C4_AttributionNonInterference ==
    attr_runs # <<>> =>
        \A m1, m2 \in Modes : \A i \in DOMAIN agent_states :
            /\ attr_runs[m1].agent_states[i].belief
                  = attr_runs[m2].agent_states[i].belief
            /\ attr_runs[m1].agent_states[i].shared
                  = attr_runs[m2].agent_states[i].shared

\* ------------------------------------------------------------------------
\* Properties of the GUI's run loop (SpecGUI)
\* ------------------------------------------------------------------------
\* C9: in a run started by init_simulation and not reset, the round counter
\* counts the ABM rounds and the PBM steps executed and never exceeds
\* max_rounds, and the run is left with no callback pending only when the
\* counter equals max_rounds: exactly max_rounds rounds and steps were
\* executed.
C9_ExactRoundCount ==
    gui_run = "running" =>
        /\ gui.round <= gui.max_rounds
        /\ Len(abm_calls) = gui.round
        /\ abm_rounds = gui.round
        /\ Len(history) = gui.round + 1
        /\ timers = 0 => gui.round = gui.max_rounds

\* every tick of the run read the intervention round the panel shows now
InterventionRoundHeld ==
    \A n \in 1..Len(abm_calls) :
        abm_calls[n].int_round = widgets.intervention_round_var

C18_DegenerateNoCrash ==
    total_population = 0 =>
        /\ ~pbm_raised
        /\ pbm_last.op = "step" =>
              /\ pbm_last.exposure_rate = 0
              /\ Len(history) > 1

\* C19: constructing the simulator with a population size <= 0 ends in an
\* error and yields no usable simulator: every simulator that exists has a
\* positive population.
C19_NonPositiveRejected ==
    history # <<>> => total_population > 0

\* C20: after adjust_rates(..., intervention=True) the recovery_rate is 0.15
\* whatever it was before; after adjust_rates(..., intervention=False) it is
\* unchanged unless it was at the 0.10 default, in which case it is 0.10.
C20_RecoveryUnderIntervention ==
    pbm_last.op = "adjust" =>
        IF pbm_last.intervention
        THEN rates.recovery_rate = 150
        ELSE IF pbm_last.before.recovery_rate = DEFAULT_RECOVERY_RATE
             THEN rates.recovery_rate = DEFAULT_RECOVERY_RATE
             ELSE rates.recovery_rate = pbm_last.before.recovery_rate

\* C21: for every recovery_rate the PBM can hold before the call (the default,
\* or a caller's override in [0, 1]), the recovery_rate after
\* adjust_rates(..., intervention=True) is not lower than before the call.
C21_InterventionRaisesRecovery ==
    (pbm_last.op = "adjust" /\ pbm_last.intervention) =>
        rates.recovery_rate >= pbm_last.before.recovery_rate

\* C22: susceptible, believers and immune are each >= 0 right after
\* construction and after every simulate_step.
C22_CompartmentsNonNegative ==
    /\ susceptible >= 0
    /\ believers >= 0
    /\ immune >= 0

\* ------------------------------------------------------------------------
\* Properties of the ABM's standard round (SpecABM), continued
\* ------------------------------------------------------------------------
\* C14: an agent that is immune at the start of a standard round is skipped
\* by the round: its belief stays 0, it does not share, and no transmission
\* record appended in that round has it as its target.
C14_ImmuneFrozen ==
    abm_last.op = "fake_news" =>
        \A i \in DOMAIN abm_prev :
            abm_prev[i].immune =>
                /\ agent_states[i].belief = 0
                /\ ~agent_states[i].shared
                /\ LET recs == transmission_history[Len(transmission_history)]
                   IN  \A k \in 1..Len(recs) : recs[k][2] # i

\* C15: whenever a standard round appends (source, target), the target's
\* belief at the start of the round was at most theta_b and the target's
\* committed belief at the end of the round is greater than theta_b.
C15_RecordMarksTransition ==
    abm_last.op = "fake_news" =>
        LET recs == transmission_history[Len(transmission_history)]
            theta_b == ThetaB(abm_last.args)
        IN  \A k \in 1..Len(recs) :
                /\ abm_prev[recs[k][2]].belief <= theta_b
                /\ agent_states[recs[k][2]].belief > theta_b

\* C16: under every attribution mode each recorded pair (source, target) has
\* source adjacent to target and source sharing in the pre-round snapshot; in
\* mode 'first' the source is the first such neighbour in neighbour order,
\* and in modes 'weighted' and 'random' every such neighbour can be chosen.
C16_SourceValidity ==
    abm_last.op = "fake_news" =>
        LET recs == transmission_history[Len(transmission_history)]
            mode == sim_attrs.attribution_mode
        IN  \A k \in 1..Len(recs) :
                LET src == recs[k][1]
                    tgt == recs[k][2]
                    sharers == SelectSeq(neighbors(G, tgt),
                                         LAMBDA j : abm_prev[j].shared)
                IN  /\ {src, tgt} \in G
                    /\ src # tgt
                    /\ abm_prev[src].shared
                    /\ mode = "first" => src = sharers[1]
                    /\ mode # "first" =>
                          \A c \in 1..Len(sharers) :
                              \E u \in 0..(SCALE - 1) :
                                  AttributedSource(G, abm_prev, tgt, mode, u)
                                      = sharers[c]

\* a record whose target had two sharing neighbours and whose source is the
\* second of them
C16_SecondSharerCredited ==
    /\ abm_last.op = "fake_news"
    /\ sim_attrs.attribution_mode # "first"
    /\ LET recs == transmission_history[Len(transmission_history)]
       IN  \E k \in 1..Len(recs) :
               LET sharers == SelectSeq(neighbors(G, recs[k][2]),
                                        LAMBDA j : abm_prev[j].shared)
               IN  /\ Len(sharers) = 2
                   /\ recs[k][1] = sharers[2]

\* C17: after every standard round, an agent that shares has a committed
\* belief greater than 0; an agent whose committed belief is 0, every immune
\* agent included, does not share.
C17_SharingGatedByBelief ==
    abm_last.op = "fake_news" =>
        \A i \in DOMAIN agent_states :
            /\ agent_states[i].shared => agent_states[i].belief > 0
            /\ agent_states[i].immune => ~agent_states[i].shared

\* a round after which an agent that was sharing has belief 0 and no longer
\* shares, while another agent with a positive belief shares
C17_ZeroBeliefStopsSharing ==
    /\ abm_last.op = "fake_news"
    /\ \E i, j \in DOMAIN agent_states :
          /\ abm_prev[i].shared
          /\ agent_states[i].belief = 0
          /\ ~agent_states[i].shared
          /\ agent_states[j].shared
          /\ agent_states[j].belief > 0

C12_HistoriesInLockstep ==
    gui_run # "none" =>
        /\ gui.abm_results.len = gui.round + 1
        /\ Len(gui.pbm_results) = gui.round + 1
        /\ Len(history) = gui.round + 1

\* ------------------------------------------------------------------------
\* Properties of the extension
\* ------------------------------------------------------------------------
\* C13: after a run has reached max_rounds the extend operation can be
\* performed: the GUI has a step that is add_more_rounds, which raises
\* max_rounds by 10, sets extra_rounds and schedules the callback, without
\* re-creating a simulator and without clearing the intervention flag or the
\* histories.
C13_ExtensionResumes ==
    (gui_run = "running" /\ gui.round > 0 /\ gui.round = gui.max_rounds)
        => ENABLED (NextGUI /\ add_more_rounds)

\* ------------------------------------------------------------------------
\* Properties of the ABM (SpecABM): the round's result, range, update rule
\* ------------------------------------------------------------------------
\* C23: the list simulate_fake_news_round returns has one entry per agent and
\* its i-th entry is true exactly when agent i is a believer (committed belief
\* > theta_b) after the round.
C23_OutputIsBelieverVector ==
    abm_last.op = "fake_news" =>
        /\ Len(abm_last.returned) = NumAgents
        /\ \A i \in Agents :
              abm_last.returned[i + 1]
                  <=> (agent_states[i].belief > ThetaB(abm_last.args))

\* C24: in a standard round a believer (belief > theta_b) is subject to a
\* boredom draw; when the draw succeeds its new belief is forced to 0 and the
\* standard update is skipped, even when it has sharing neighbours and its
\* P_believe exceeds theta_b: such a believer can lose its belief and become
\* immune in that round. Stated as the possibility it asserts: from every state
\* with such a believer, the round has an outcome that leaves it immune with
\* belief 0.
C24_BoredomRecovery ==
    \A a \in RoundArgs, i \in Agents :
        ( /\ abm_phase = "seeded"
          /\ abm_rounds < MaxRounds
          /\ ~a.extra_rounds
          /\ agent_states[i].belief > ThetaB(a)
          /\ Exposures(G, agent_states, i) > 0
          /\ PBelieve(agent_states[i], Exposures(G, agent_states, i), a,
                      get_dynamic_parameters(a.juice_factor, a.intervention,
                                             a.extra_rounds)) > ThetaB(a) )
        => ENABLED ( /\ FakeNewsRound
                     /\ abm_last'.args = a
                     /\ agent_states'[i].belief = 0
                     /\ agent_states'[i].immune )

\* C25: after seeding and after any sequence of standard rounds, every
\* agent's belief is in [0, 1].
C25_BeliefInRange ==
    \A i \in DOMAIN agent_states :
        agent_states[i].belief >= 0 /\ agent_states[i].belief <= SCALE

\* a round has dropped one agent's belief to 0 and left another's strictly
\* between the ends
C25_RangeCovered ==
    /\ abm_last.op = "fake_news"
    /\ \E i, k \in Agents :
          /\ agent_states[i].belief = 0 /\ abm_prev[i].belief > 0
          /\ agent_states[k].belief > 0 /\ agent_states[k].belief < SCALE

\* ------------------------------------------------------------------------
\* Properties of standard and scam rounds on one simulator (SpecMixed)
\* ------------------------------------------------------------------------
\* the six trait values of an agent
Traits(agent) ==
    <<agent.confirmation_bias, agent.emotional_susceptibility, agent.trust_level,
      agent.critical_thinking, agent.fact_check_signal, agent.risk_perception>>

\* C26: no operation after construction (seed_initial_state,
\* simulate_fake_news_round, simulate_scam_round) changes the contact graph or
\* an agent's six trait values; a standard round leaves every scammed flag
\* unchanged, and a scam round leaves every belief, shared and immune flag and
\* the transmission_history unchanged.
C26_FrameOfARound ==
    [][ /\ G' = G
        /\ DOMAIN agent_states' = DOMAIN agent_states
        /\ \A i \in Agents : Traits(agent_states'[i]) = Traits(agent_states[i])
        /\ abm_last'.op = "fake_news" =>
              \A i \in Agents : agent_states'[i].scammed = agent_states[i].scammed
        /\ abm_last'.op = "scam" =>
              /\ transmission_history' = transmission_history
              /\ \A i \in Agents :
                    /\ agent_states'[i].belief = agent_states[i].belief
                    /\ agent_states'[i].shared = agent_states[i].shared
                    /\ agent_states'[i].immune = agent_states[i].immune ]_vars

\* a scam round has claimed a new victim on a simulator that holds beliefs and
\* a transmission history, after a standard round that changed a belief while
\* a scam flag was set
C26_BothRoundsActed ==
    /\ abm_last.op = "scam"
    /\ \E i \in Agents : agent_states[i].scammed /\ ~abm_prev[i].scammed
    /\ \E i \in Agents : agent_states[i].belief > 0 /\ agent_states[i].belief < SCALE
    /\ transmission_history /= <<>>
    /\ \E k \in 1..Len(transmission_history) : transmission_history[k] /= <<>>

\* ------------------------------------------------------------------------
\* Properties of the update of an exposed agent (SpecUpdate)
\* ------------------------------------------------------------------------
\* P_believe and theta_b of the update just applied
C27PBelieve ==
    PBelieve(agent_states[0], abm_last.exposures, abm_last.args,
             get_dynamic_parameters(abm_last.args.juice_factor,
                                    abm_last.args.intervention,
                                    abm_last.args.extra_rounds))

\* the decayed belief old_belief * exp(-lambda_decay * max(0.5, 1 - exposures/10))
C27Decayed ==
    Mul(agent_states[0].belief,
        Exp(-Mul(get_dynamic_parameters(abm_last.args.juice_factor,
                                        abm_last.args.intervention,
                                        abm_last.args.extra_rounds).lambda_decay,
                 Max(500, SCALE - (abm_last.exposures * SCALE) \div 10))))

\* C27 as stated: for an agent with at least one sharing neighbour in a round
\* that is not an extra round, if P_believe > theta_b the raw new belief is
\* min(0.95, P_believe), for every exposure count; otherwise it is
\* old_belief * exp(-lambda_decay * max(0.5, 1.0 - exposures/10)).
C27_StandardUpdateRule ==
    abm_last.op = "exposed_update" =>
        abm_last.new_belief =
            IF C27PBelieve > ThetaB(abm_last.args)
            THEN Min(950, C27PBelieve)
            ELSE C27Decayed

\* C27, amended: if P_believe > theta_b the raw new belief is
\* min(0.9, P_believe) with fewer than 3 sharing neighbours and
\* min(1.0, P_believe + 0.1) with 3 or more; otherwise it is
\* old_belief * exp(-lambda_decay * max(0.5, 1.0 - exposures/10)).
C27_UpdateRuleByExposure ==
    abm_last.op = "exposed_update" =>
        abm_last.new_belief =
            IF C27PBelieve > ThetaB(abm_last.args)
            THEN IF abm_last.exposures < 3
                 THEN Min(900, C27PBelieve)
                 ELSE Min(SCALE, C27PBelieve + 100)
            ELSE C27Decayed

\* an agent with three sharing neighbours whose P_believe exceeds theta_b has
\* been updated
C27_ManyExposures ==
    /\ abm_last.op = "exposed_update"
    /\ abm_last.exposures >= 3
    /\ C27PBelieve > ThetaB(abm_last.args)
    /\ abm_last.new_belief > C27PBelieve

\* C32 as stated: for every topic category passed to a standard round,
\* including none and a category with no primary trait, each of the four
\* trait weights equals its base coefficient multiplied by 1.4 if the trait
\* is the category's primary vulnerability trait and by 0.9 otherwise.
C32_CategoryAdjustedWeights ==
    abm_last.op = "exposed_update" =>
        \A k \in DOMAIN BaseWeights :
            abm_last.weights[k] =
                Mul(BaseWeights[k],
                    IF /\ abm_last.args.topic_category \in DOMAIN CATEGORY_TRAIT
                       /\ k = CATEGORY_TRAIT[abm_last.args.topic_category]
                    THEN 1400 ELSE 900)

\* C32, amended: for a category that has a primary vulnerability trait each
\* weight is its base coefficient times 1.4 for that trait and times 0.9 for
\* the other three; for no category and for a category without a primary
\* trait the four weights are the base coefficients themselves.
C32_WeightsByPrimaryTrait ==
    abm_last.op = "exposed_update" =>
        /\ DOMAIN abm_last.weights = DOMAIN BaseWeights
        /\ \A k \in DOMAIN BaseWeights :
              abm_last.weights[k] =
                  IF abm_last.args.topic_category \in DOMAIN CATEGORY_TRAIT
                  THEN IF k = CATEGORY_TRAIT[abm_last.args.topic_category]
                       THEN (BaseWeights[k] * 14) \div 10
                       ELSE (BaseWeights[k] * 9) \div 10
                  ELSE BaseWeights[k]

\* the weights of a topic that is not categorised have been computed
C32_UncategorisedTopic ==
    /\ abm_last.op = "exposed_update"
    /\ abm_last.args.topic_category = "Uncategorized"
    /\ abm_last.weights = BaseWeights

\* ------------------------------------------------------------------------
\* Properties of the ABM (SpecABM): immunity and smoothing
\* ------------------------------------------------------------------------
\* C28: in a standard round an agent's immune flag changes from false to true
\* if and only if its belief at the start of the round was > theta_b and its
\* raw new belief is <= theta_b; its belief is then 0 and its shared flag
\* false at the end of the round. No agent is immune at construction and
\* seeding marks none, so no agent that was never a believer is ever immune.
C28_ImmunityTransition ==
    /\ abm_phase = "constructed" => \A i \in Agents : ~agent_states[i].immune
    /\ abm_last.op = "seed" =>
          \A i \in Agents : agent_states[i].immune = abm_prev[i].immune
    /\ abm_last.op = "fake_news" =>
          \A i \in Agents :
              /\ (~abm_prev[i].immune /\ agent_states[i].immune)
                    <=> ( /\ abm_prev[i].belief > ThetaB(abm_last.args)
                          /\ abm_last.raw[i] <= ThetaB(abm_last.args) )
              /\ (~abm_prev[i].immune /\ agent_states[i].immune) =>
                    /\ agent_states[i].belief = 0
                    /\ ~agent_states[i].shared

\* a sharing believer has turned immune in the round while another agent,
\* whose raw new belief is at most theta_b too, has not
C28_BelieverTurnedImmune ==
    /\ abm_last.op = "fake_news"
    /\ \E i, j \in Agents :
          /\ abm_prev[i].shared
          /\ ~abm_prev[i].immune
          /\ agent_states[i].immune
          /\ abm_last.raw[j] <= ThetaB(abm_last.args)
          /\ ~agent_states[j].immune

\* C29: for every agent that is not immune at the end of a standard round the
\* committed belief equals
\* clamp(old + (1 - INERTIA) * clamp(new - old, -MAX_DELTA, +MAX_DELTA), 0, 1),
\* so it changes by at most (1 - INERTIA) * MAX_DELTA in the round, with
\* INERTIA and MAX_DELTA the simulator's belief_inertia and max_belief_delta
\* (0.08 with the defaults 0.6 and 0.2).
C29_SmoothingBound ==
    abm_last.op = "fake_news" =>
        \A i \in Agents :
            ~agent_states[i].immune =>
                LET old == abm_prev[i].belief
                    step == Max(-sim_attrs.max_belief_delta,
                                Min(sim_attrs.max_belief_delta,
                                    abm_last.raw[i] - old))
                IN  /\ agent_states[i].belief =
                          Max(0, Min(SCALE,
                                     old + Mul(SCALE - sim_attrs.belief_inertia,
                                               step)))
                    /\ Abs(agent_states[i].belief - old)
                          <= Mul(SCALE - sim_attrs.belief_inertia,
                                 sim_attrs.max_belief_delta)

\* with the default settings an agent whose raw new belief lies more than
\* MAX_DELTA above its old belief has moved by exactly 0.08
C29_StepCapped ==
    /\ abm_last.op = "fake_news"
    /\ \E i \in Agents :
          /\ ~agent_states[i].immune
          /\ sim_attrs.belief_inertia = DEFAULT_INERTIA
          /\ sim_attrs.max_belief_delta = DEFAULT_MAX_DELTA
          /\ abm_last.raw[i] - abm_prev[i].belief > DEFAULT_MAX_DELTA
          /\ agent_states[i].belief - abm_prev[i].belief
                = Mul(SCALE - DEFAULT_INERTIA, DEFAULT_MAX_DELTA)

\* ------------------------------------------------------------------------
\* Properties of the order of processing (SpecOrder)
\* ------------------------------------------------------------------------
\* C30: in a standard round and in a scam round each agent's update reads its
\* neighbours' shared, belief and scammed values as they were at the start of
\* the round, never a value committed for another agent in the same round:
\* whatever the order in which the agents are visited, the scam loop leaves
\* the state the round left, and the belief loop leaves the raw new beliefs
\* from which the round's immune flags and committed beliefs follow.
C30_PreviousRoundSnapshot ==
    /\ abm_last.op = "scam" =>
          \A order \in Orders(DOMAIN abm_prev) :
              ScamRoundInOrder(G, abm_prev, order) = agent_states
    /\ abm_last.op = "fake_news" =>
          \A order \in Orders(DOMAIN abm_prev) :
              \E raw \in {BeliefLoop(G, abm_prev, abm_last.args, order, Len(order))} :
                  /\ raw = abm_last.raw
                  /\ \A i \in DOMAIN abm_prev :
                        /\ agent_states[i].immune =
                              ImmuneFlag(abm_prev, raw, i, abm_last.args)
                        /\ agent_states[i].belief =
                              CommittedBelief(abm_prev, raw, i, abm_last.args,
                                              sim_attrs)

\* a scam round has claimed agent i and left its neighbour j, who falls for
\* the scam once exposed, unscammed: j saw i as it was before the round
C30_NeighbourClaimedSameRound ==
    /\ abm_last.op = "scam"
    /\ \E i, j \in DOMAIN agent_states :
          /\ {i, j} \in G
          /\ ~abm_prev[i].scammed
          /\ agent_states[i].scammed
          /\ PScam(agent_states[j]) > 500
          /\ ~agent_states[j].scammed

\* ------------------------------------------------------------------------
\* Properties of the ABM (SpecABM): extra rounds, conversions, absorption
\* ------------------------------------------------------------------------
\* C31: in every standard round invoked with extra_rounds=true no agent's
\* committed belief is higher than its belief at the start of the round, no
\* agent goes from non-believer to believer, and the transmission list
\* appended for the round is empty, whatever the exposure counts are.
C31_ExtraRoundsDecayOnly ==
    (abm_last.op = "fake_news" /\ abm_last.args.extra_rounds) =>
        /\ \A i \in Agents :
              /\ agent_states[i].belief <= abm_prev[i].belief
              /\ ~( /\ abm_prev[i].belief <= ThetaB(abm_last.args)
                    /\ agent_states[i].belief > ThetaB(abm_last.args) )
        /\ transmission_history[Len(transmission_history)] = <<>>

\* an extra round has left an exposed non-believer's belief lower than it was,
\* next to a believer whose belief fell as well
C31_ExposedAgentDecayed ==
    /\ abm_last.op = "fake_news"
    /\ abm_last.args.extra_rounds
    /\ \E i, j \in Agents :
          /\ Exposures(G, abm_prev, i) > 0
          /\ abm_prev[i].belief > 0
          /\ abm_prev[i].belief <= ThetaB(abm_last.args)
          /\ agent_states[i].belief < abm_prev[i].belief
          /\ abm_prev[j].belief > ThetaB(abm_last.args)
          /\ agent_states[j].belief < abm_prev[j].belief

\* ------------------------------------------------------------------------
\* Properties of the GUI's run loop (SpecGUI): variant, reset, timers, rates
\* ------------------------------------------------------------------------
\* C33 as stated: every ABM round of a run is of the same variant, and the
\* scam variant (scam rounds, with seeding of scammed agents instead of
\* believers) is used exactly when the inferred topic belongs to the
\* financial-scam category; otherwise every round is a standard round.
C33_VariantByCategory ==
    gui_run # "none" =>
        /\ (\E i \in DOMAIN agent_states : agent_states[i].scammed)
              <=> (sim_topic.topic_category = "Financial Scams")
        /\ \A n \in 1..Len(abm_calls) :
              (abm_calls[n].kind = "scam")
                  <=> (sim_topic.topic_category = "Financial Scams")

\* C33, amended: every ABM round of a run is of the same variant, and the
\* scam variant, with scammed agents seeded whenever the CSV has a row, is
\* used exactly when the inferred topic is the topic "Financial Scam"; for
\* every other topic, the other topics of the financial-scam category
\* included, believers are seeded and every round is a standard round.
C33_VariantByTopic ==
    gui_run # "none" =>
        /\ (\E i \in DOMAIN agent_states : agent_states[i].scammed)
              <=> (sim_topic.topic = "Financial Scam" /\ agent_states # <<>>)
        /\ (\E i \in DOMAIN agent_states : agent_states[i].belief > 0)
              => (sim_topic.topic # "Financial Scam")
        /\ \A n \in 1..Len(abm_calls) :
              /\ abm_calls[n].kind \in {"scam", "fake_news"}
              /\ (abm_calls[n].kind = "scam")
                    <=> (sim_topic.topic = "Financial Scam")

\* a run on another topic of the financial-scam category has executed two
\* standard rounds
C33_OtherScamTopicRun ==
    /\ gui_run = "running"
    /\ sim_topic.topic_category = "Financial Scams"
    /\ sim_topic.topic # "Financial Scam"
    /\ Len(abm_calls) >= 2
    /\ \A n \in 1..Len(abm_calls) : abm_calls[n].kind = "fake_news"

\* C34: after reset_simulation is invoked at any point of a run, also while a
\* round timer is pending, no further ABM round or PBM step is executed until
\* init_simulation is invoked again.
C34_ResetStopsTheRun ==
    [][ (gui_run = "reset" /\ gui_run' = "reset") =>
            /\ abm_calls' = abm_calls
            /\ agent_states' = agent_states
            /\ abm_rounds' = abm_rounds
            /\ history' = history ]_vars

\* C35: under any interleaving of Run, Reset and timer callbacks at most one
\* automate_rounds callback is pending at any time.
C35_SingleRoundDriver == timers <= 1

\* C36: within a run started by init_simulation with any slider settings, the
\* defaults 0.4 / 0.3 / 0.1 included, the PBM contact_rate and belief_rate
\* are the same in every round: activating the intervention changes
\* recovery_rate and nothing else.
C36_OnlyRecoveryChanges ==
    [][ (gui_run = "running" /\ gui_run' = "running") =>
            /\ rates'.contact_rate = rates.contact_rate
            /\ rates'.belief_rate = rates.belief_rate ]_vars

\* ------------------------------------------------------------------------
\* Properties of long runs of the scam variant (SpecScamLong)
\* ------------------------------------------------------------------------
\* the scammed agents of a state
ScammedSet(st) == {i \in DOMAIN st : st[i].scammed}

\* C37: from any seeding on a graph of N agents, repeated scam rounds change
\* the scammed set in at most N rounds in total: a round that leaves the set
\* unchanged is followed only by rounds that leave it unchanged, and every
\* round after the N-th leaves it unchanged; an agent whose P_scam is <= 0.5
\* is never scammed by a round, so it is scammed only if it was seeded.
C37_ScamFixpoint ==
    /\ [](abm_last.op = "scam" =>
            /\ abm_rounds > Cardinality(DOMAIN agent_states) =>
                  ScammedSet(agent_states) = ScammedSet(abm_prev)
            /\ \A i \in DOMAIN agent_states :
                  (PScam(agent_states[i]) <= 500 /\ agent_states[i].scammed)
                      => abm_prev[i].scammed)
    /\ [][ ( /\ abm_last.op = "scam"
             /\ ScammedSet(agent_states) = ScammedSet(abm_prev)
             /\ abm_last'.op = "scam" )
           => ScammedSet(agent_states') = ScammedSet(agent_states) ]_vars

\* more rounds than agents have run: the spread has stopped with three agents
\* scammed and an exposed agent of low P_scam left out
C37_SpreadStopped ==
    /\ abm_last.op = "scam"
    /\ abm_rounds > Cardinality(DOMAIN agent_states)
    /\ Cardinality(ScammedSet(agent_states)) = 3
    /\ \E i \in DOMAIN agent_states :
          /\ ~agent_states[i].scammed
          /\ PScam(agent_states[i]) <= 500
          /\ ScamExposures(G, [j \in DOMAIN agent_states |-> agent_states[j].scammed], i) > 0

\* ------------------------------------------------------------------------
\* Properties of the ABM (SpecABM): the transmission log
\* ------------------------------------------------------------------------
\* C38: over all rounds of a run each agent appears as the target of at most
\* one transmission record in transmission_history.
C38_OneConversionPerAgent ==
    \A i \in Agents :
        Cardinality({<<r, k>> \in (1..Len(transmission_history)) \X (1..NumAgents) :
                        /\ k <= Len(transmission_history[r])
                        /\ transmission_history[r][k][2] = i}) <= 1

\* the agents the round started in state st with arguments a appends a record
\* for: the non-believers whose raw new belief exceeds theta_b and that have a
\* neighbour that was sharing
C39Converts(st, a) ==
    {i \in DOMAIN st :
        /\ st[i].belief <= ThetaB(a)
        /\ RawNewBelief(G, st, i, a) > ThetaB(a)
        /\ \E j \in DOMAIN st : {i, j} \in G /\ j # i /\ st[j].shared}

\* the list the last round appended to run m's transmission_history
C39Appended(runs, m) ==
    runs[m].transmission_history[Len(runs[m].transmission_history)]

\* C39: in every round each run appends exactly one list, which holds one
\* record for each non-believer with a raw new belief above theta_b and a
\* neighbour that was sharing, so that runs which start the round from the
\* same agent state append the same number of records under all three
\* attribution modes; transmission_history holds one list per round.
C39_LogSizeModeIndependent ==
    /\ [](attr_runs # <<>> =>
            \A m \in Modes : Len(attr_runs[m].transmission_history) = abm_rounds)
    /\ [][(attr_runs # <<>> /\ abm_rounds' = abm_rounds + 1) =>
            /\ \A m \in Modes :
                  /\ Len(attr_runs'[m].transmission_history)
                        = Len(attr_runs[m].transmission_history) + 1
                  /\ Len(C39Appended(attr_runs', m))
                        = Cardinality(C39Converts(attr_runs[m].agent_states,
                                                  abm_last'.args))
            /\ \A m1, m2 \in Modes :
                  attr_runs[m1].agent_states = attr_runs[m2].agent_states =>
                      Len(C39Appended(attr_runs', m1))
                         = Len(C39Appended(attr_runs', m2))]_vars

\* the three runs appended a record in the first round, which they started
\* from the same state, and the modes credit different sources
C39_SameSizeOtherSource ==
    /\ attr_runs # <<>>
    /\ abm_rounds >= 1
    /\ \A m \in Modes : Len(attr_runs[m].transmission_history[1]) = 1
    /\ attr_runs["first"].transmission_history[1]
          # attr_runs["random"].transmission_history[1]

\* agent i had no neighbour that was sharing in state st
C40Unexposed(st, i) ==
    \A j \in DOMAIN st : ({i, j} \in G /\ j # i) => ~st[j].shared

\* every belief of state st is 0
C40AllZero(st) == \A i \in DOMAIN st : st[i].belief = 0

\* C40: an agent with no neighbour that was sharing in the previous round ends
\* a standard round with a committed belief no higher than its belief at the
\* start; and a round that starts with every belief 0 leaves every belief 0
\* and every shared flag false and appends an empty list of records.
C40_BeliefGrowsOnlyThroughExposure ==
    /\ [](abm_last.op = "fake_news" =>
            \A i \in DOMAIN agent_states :
                C40Unexposed(abm_prev, i) =>
                    agent_states[i].belief <= abm_prev[i].belief)
    /\ [][(C40AllZero(agent_states) /\ abm_rounds' = abm_rounds + 1) =>
            /\ C40AllZero(agent_states')
            /\ \A i \in DOMAIN agent_states' : ~agent_states'[i].shared
            /\ transmission_history'[Len(transmission_history')] = <<>>]_vars

\* every belief had decayed to 0 in a run whose agents had believed, and a
\* further round was run from that state
C40_RoundAfterAllZero ==
    /\ abm_last.op = "fake_news"
    /\ C40AllZero(abm_prev)
    /\ C40AllZero(agent_states)
    /\ \E i \in DOMAIN agent_states : agent_states[i].immune

====
